---- MODULE Spec2Model ----
(***************************************************************************)
(* The relay settlement state machine of server/routes.ts: mixer sessions  *)
(* (pending -> deposit_confirmed -> completed / payout_failed), the        *)
(* deposit verifiers, the payout dispatchers and the session store of      *)
(* server/storage.ts.                                                      *)
(*                                                                         *)
(* Every `await` of the confirm-deposit handler is a scheduling point:     *)
(* the handler is split into one action per awaited call that reads or     *)
(* writes shared state (the session read, the three session updates, the   *)
(* payout), so several requests on the same session interleave where Node  *)
(* lets them.  An update of the store may raise; the handler's catch       *)
(* blocks then run as in the source.                                       *)
(*                                                                         *)
(* Units.  Session amounts are decimal strings in the source.  Here an     *)
(* amount is the integer number of 10^-6 native units it denotes ("0.01"   *)
(* is 10000).  Solana values are lamports (10^-9 SOL); EVM values are in   *)
(* units of 10^12 wei (10^-6 ETH/BNB), so that they fit TLC's integers.    *)
(*                                                                         *)
(* Specifications.  Spec is the relay: create requests that store a        *)
(* session and confirm-deposit requests.  SpecCreate is the create handler *)
(* on its own, with every request body and its answer.  SpecConcurrent is  *)
(* the relay with several sessions.                                        *)
(***************************************************************************)
EXTENDS Integers, Sequences, FiniteSets, TLC

\* ---------------------------------------------------------------- bounds
MaxSessions == 1
MaxRequests == 2
\* Sessions created in the specification of the create handler.
MaxCreated == 2

NULL == "null"

\* ------------------------------------------------------- program constants
\* LAMPORTS_PER_SOL / 10^6: lamports in one amount unit.
LamportsPerMicro == 1000
\* routes.ts:236
NETWORK_FEE_LAMPORTS == 5000
\* routes.ts:185, the literal 1000 in the amount comparison.
SolToleranceLamports == 1000
\* routes.ts:223, parseEther("0.0001") in units of 10^12 wei.
EthTolerance == 100
\* routes.ts:269, parseEther("0.001") in units of 10^12 wei.
EthGasFee == 1000
\* routes.ts:291, parseEther("0.0005") in units of 10^12 wei.
BnbGasFee == 500

\* ------------------------------------------------------------- addresses
SolAddresses == {"SoAlice", "SoBob", "SoPool"}
EthAddresses == {"0xalice", "0xALICE", "0xbob", "0xpool", "0xbnbpool"}

\* String.prototype.toLowerCase on the addresses of the model.
ToLower(a) == IF a = "0xALICE" THEN "0xalice" ELSE a

\* switch (chain.toLowerCase()) of both handlers.
ChainLower(c) ==
    CASE c = "Solana" -> "solana"
      [] c = "ETH" -> "eth"
      [] OTHER -> c

IsSolana(c) == c = "solana"
IsEthereum(c) == c \in {"ethereum", "eth"}
IsBnb(c) == c \in {"bnb", "bsc"}

\* new PublicKey(address) succeeds: base58 of 32 bytes.
IsValidSolAddress(a) == a \in SolAddresses
\* An address check that lets every string through.
IsValidEthAddressAny(a) == TRUE

\* isValidEthAddress: ethers.isAddress(address).
IsValidEthAddress(a) == a \in EthAddresses

VARIABLES
    poolAddress,     \* solana pool address, or NULL when not configured
    ethPoolAddress,  \* ETH pool address, or NULL
    bnbPoolAddress,  \* BNB pool address, or NULL
    sessions,        \* the mixer_sessions table: sequence of rows, id = index
    requests,        \* confirm-deposit requests: position and locals of each
    payouts,         \* payout transactions confirmed on chain
    lastCreate,      \* the latest POST /api/mixer/sessions: its body and answer
    lastVerify,      \* the latest call of a deposit verifier: arguments, result
    lastRead,        \* the latest GET of sessions: its key and answer
    battle,          \* the trading_battles row of the battle
    clock,           \* the time of day (new Date()), in hours
    agentStats,      \* the agents rows of the battle's two agents
    ticks,           \* the scheduler's interval callbacks: position and locals
    starts,          \* requests to start the battle: position and answer
    trades,          \* trade requests on the battle: position and answer
    priceCache,      \* priceService's priceCache map
    dateNow,         \* Date.now(), in units of 30 s
    priceCalls       \* calls of getCryptoPrice: position, locals and result

\* The state of the mixer relay, of the trading battles and of the price
\* service.
relayVars == <<poolAddress, ethPoolAddress, bnbPoolAddress, sessions, requests, payouts,
               lastCreate, lastVerify, lastRead>>

battleVars == <<battle, clock, agentStats, ticks, starts, trades>>

priceVars == <<priceCache, dateNow, priceCalls>>

vars == <<relayVars, battleVars, priceVars>>

\* The pool address the handlers use for a (lower-cased) chain.
TargetPoolAddress(c) ==
    CASE IsSolana(c) -> poolAddress
      [] IsEthereum(c) -> ethPoolAddress
      [] IsBnb(c) -> bnbPoolAddress
      [] OTHER -> NULL

\* ------------------------------------------------------------ chain data
\* The deposit transactions the chains hold.  They are the environment of
\* the relay: nothing in the program changes them.
TxIds == {"tx1", "tx2", "tx3", "tx4", "tx5", "tx6", "tx7"}

\* Every transaction id a verifier is called with: those above and
\* transfers at the edges of the verifiers' amount check, above and below
\* the expected amount.
VerifierTxIds == TxIds \cup {"tx8", "tx9", "tx10", "tx11", "tx12"}

\* A lookup that finds nothing (null).
NotFound == [found |-> FALSE]

\* connection.getTransaction(signature): txInfo, or NotFound when the chain
\* has no such transaction.  key0/key1 are accountKeys.get(0)/get(1),
\* pre0/post0 are meta.preBalances[0]/postBalances[0].
SolanaTx(signature) ==
    CASE signature = "tx1" ->
           [found |-> TRUE, err |-> FALSE, key0 |-> "SoAlice", key1 |-> "SoPool",
            pre0 |-> 20005000, post0 |-> 10000000, fee |-> 5000]
      [] signature = "tx2" ->
           [found |-> TRUE, err |-> FALSE, key0 |-> "SoAlice", key1 |-> "SoPool",
            pre0 |-> 20005000, post0 |-> 19997000, fee |-> 5000]
      [] signature = "tx3" ->
           [found |-> TRUE, err |-> TRUE, key0 |-> "SoAlice", key1 |-> "SoPool",
            pre0 |-> 20005000, post0 |-> 20000000, fee |-> 5000]
      [] signature = "tx4" ->
           [found |-> TRUE, err |-> FALSE, key0 |-> "SoAlice", key1 |-> "SoBob",
            pre0 |-> 20005000, post0 |-> 10000000, fee |-> 5000]
      [] signature = "tx5" ->
           [found |-> TRUE, err |-> FALSE, key0 |-> "SoBob", key1 |-> "SoPool",
            pre0 |-> 20005000, post0 |-> 10000000, fee |-> 5000]
      [] signature = "tx7" ->
           [found |-> TRUE, err |-> FALSE, key0 |-> "SoAlice", key1 |-> "SoPool",
            pre0 |-> 20005000, post0 |-> 19935000, fee |-> 5000]
      [] signature = "tx8" ->
           [found |-> TRUE, err |-> FALSE, key0 |-> "SoAlice", key1 |-> "SoPool",
            pre0 |-> 20005000, post0 |-> 9999000, fee |-> 5000]
      [] signature = "tx9" ->
           [found |-> TRUE, err |-> FALSE, key0 |-> "SoAlice", key1 |-> "SoPool",
            pre0 |-> 20005000, post0 |-> 9998999, fee |-> 5000]
      [] signature = "tx10" ->
           [found |-> TRUE, err |-> FALSE, key0 |-> "SoAlice", key1 |-> "SoPool",
            pre0 |-> 20005000, post0 |-> 19934000, fee |-> 5000]
      [] signature = "tx11" ->
           [found |-> TRUE, err |-> FALSE, key0 |-> "SoAlice", key1 |-> "SoPool",
            pre0 |-> 20005000, post0 |-> 10001000, fee |-> 5000]
      [] signature = "tx12" ->
           [found |-> TRUE, err |-> FALSE, key0 |-> "SoAlice", key1 |-> "SoPool",
            pre0 |-> 20005000, post0 |-> 19936001, fee |-> 5000]
      [] OTHER -> NotFound

\* provider.getTransaction(txHash) joined with getTransactionReceipt:
\* receipt says whether there is a receipt, status is receipt.status.
EvmTx(provider, txHash) ==
    LET pool == IF provider = "eth" THEN "0xpool" ELSE "0xbnbpool" IN
    CASE txHash = "tx1" ->
           [found |-> TRUE, receipt |-> TRUE, from |-> "0xALICE", to |-> pool, value |-> 10000, status |-> 1]
      [] txHash = "tx2" ->
           [found |-> TRUE, receipt |-> TRUE, from |-> "0xALICE", to |-> pool, value |-> 3, status |-> 1]
      [] txHash = "tx3" ->
           [found |-> TRUE, receipt |-> TRUE, from |-> "0xALICE", to |-> pool, value |-> 10000, status |-> 0]
      [] txHash = "tx4" ->
           [found |-> TRUE, receipt |-> TRUE, from |-> "0xalice", to |-> "0xbob", value |-> 10000, status |-> 1]
      [] txHash = "tx5" ->
           [found |-> TRUE, receipt |-> TRUE, from |-> "0xbob", to |-> pool, value |-> 10000, status |-> 1]
      [] txHash = "tx7" ->
           [found |-> TRUE, receipt |-> TRUE, from |-> "0xALICE", to |-> pool, value |-> 65, status |-> 1]
      [] txHash = "tx8" ->
           [found |-> TRUE, receipt |-> TRUE, from |-> "0xALICE", to |-> pool, value |-> 10100, status |-> 1]
      [] txHash = "tx9" ->
           [found |-> TRUE, receipt |-> TRUE, from |-> "0xALICE", to |-> pool, value |-> 10101, status |-> 1]
      [] txHash = "tx10" ->
           [found |-> TRUE, receipt |-> TRUE, from |-> "0xALICE", to |-> pool, value |-> 10050, status |-> 1]
      [] txHash = "tx11" ->
           [found |-> TRUE, receipt |-> TRUE, from |-> "0xALICE", to |-> pool, value |-> 9900, status |-> 1]
      [] txHash = "tx12" ->
           [found |-> TRUE, receipt |-> TRUE, from |-> "0xALICE", to |-> pool, value |-> 9899, status |-> 1]
      [] OTHER -> NotFound

\* --------------------------------------------------------- deposit verifier
Abs(x) == IF x < 0 THEN 0 - x ELSE x

Invalid(msg) == [valid |-> FALSE, error |-> msg, actualSender |-> NULL]

\* A catch that lets the deposit through.
VerifyCatchAccepts == [valid |-> TRUE, error |-> NULL, actualSender |-> NULL]

\* The catch of both verifiers: any exception of the chain lookup.
VerifyCatch == Invalid("Failed to verify transaction on chain")

\* parseFloat(amount), in units of 10^-6: the decimal strings of the model.
ParseFloatMicro(amount) ==
    CASE amount = "0.01" -> 10000
      [] amount = "0.000003" -> 3
      [] amount = "0.000065" -> 65
      [] OTHER -> 0

\* parseFloat(amount) is NaN: the amount does not start with a number.
IsNaN(amount) == amount = "abc"

\* ethers.parseEther(amount), in units of 10^12 wei.
ParseEther(amount) == ParseFloatMicro(amount)

\* ethers.parseEther(amount) throws: the amount is not a decimal string.
ParseEtherThrows(amount) == amount = "abc"

\* Math.floor(x * LAMPORTS_PER_SOL) for x = parseFloat(amount), in IEEE-754
\* doubles as JavaScript evaluates it.  The double next to 0.000065 times
\* 10^9 rounds to 64999.99999999999, whose floor is 64999; the products for
\* "0.01" and "0.000003" are the exact 10000000.0 and 3000.0.
FloorLamports(amount) ==
    CASE amount = "0.000065" -> 64999
      [] OTHER -> ParseFloatMicro(amount) * LamportsPerMicro

\* const expectedLamports = Math.floor(parseFloat(amount) * LAMPORTS_PER_SOL)
ExpectedLamports(amount) == FloorLamports(amount)

\* A Solana verifier that looks at the recipient before the sender.
VerifyTransactionRecipientFirst(signature, fromAddress, toAddress, amount, threw) ==
    LET txInfo == SolanaTx(signature) IN
    IF threw THEN VerifyCatch
    ELSE IF ~txInfo.found THEN Invalid("Transaction not found on chain")
    ELSE IF txInfo.err THEN Invalid("Transaction failed on chain")
    ELSE IF txInfo.key1 # toAddress THEN Invalid("Recipient address mismatch")
    ELSE IF txInfo.key0 # fromAddress THEN Invalid("Sender address mismatch")
    ELSE IF /\ ~IsNaN(amount)
            /\ Abs((txInfo.pre0 - txInfo.post0 - txInfo.fee) - ExpectedLamports(amount))
                 > SolToleranceLamports
         THEN Invalid("Amount mismatch")
    ELSE [valid |-> TRUE, error |-> NULL, actualSender |-> NULL]

\* verifyTransaction (Solana); threw: the RPC call raised.  With an amount
\* that parseFloat turns into NaN, expectedLamports is NaN and the
\* comparison Math.abs(transferredLamports - NaN) > 1000 is false.
VerifyTransaction(signature, fromAddress, toAddress, amount, threw) ==
    LET txInfo == SolanaTx(signature) IN
    IF threw THEN VerifyCatch
    ELSE IF ~txInfo.found THEN Invalid("Transaction not found on chain")
    ELSE IF txInfo.err THEN Invalid("Transaction failed on chain")
    ELSE IF txInfo.key0 # fromAddress THEN Invalid("Sender address mismatch")
    ELSE IF txInfo.key1 # toAddress THEN Invalid("Recipient address mismatch")
    ELSE IF /\ ~IsNaN(amount)
            /\ Abs((txInfo.pre0 - txInfo.post0 - txInfo.fee) - ExpectedLamports(amount))
                 > SolToleranceLamports
         THEN Invalid("Amount mismatch")
    ELSE [valid |-> TRUE, error |-> NULL, actualSender |-> NULL]

\* A verifier of ETH/BNB deposits that does not look at the sender.
VerifyEthTransactionAnySender(txHash, fromAddress, toAddress, amount, provider, threw) ==
    LET tx == EvmTx(provider, txHash) IN
    IF threw THEN VerifyCatch
    ELSE IF ~tx.found THEN Invalid("Transaction not found on chain")
    ELSE IF ~tx.receipt \/ tx.status = 0 THEN Invalid("Transaction failed on chain")
    ELSE IF ToLower(tx.to) # ToLower(toAddress) THEN Invalid("Recipient address mismatch")
    ELSE IF ParseEtherThrows(amount) THEN VerifyCatch
    ELSE IF Abs(tx.value - ParseEther(amount)) > EthTolerance
         THEN [valid |-> FALSE, error |-> "Amount mismatch", actualSender |-> tx.from]
    ELSE [valid |-> TRUE, error |-> NULL, actualSender |-> tx.from]

\* verifyEthTransaction (ETH and BNB); threw: an RPC call raised.
\* parseEther of an amount that is not a decimal string throws into the
\* catch.
VerifyEthTransaction(txHash, fromAddress, toAddress, amount, provider, threw) ==
    LET tx == EvmTx(provider, txHash) IN
    IF threw THEN VerifyCatch
    ELSE IF ~tx.found THEN Invalid("Transaction not found on chain")
    ELSE IF ~tx.receipt \/ tx.status = 0 THEN Invalid("Transaction failed on chain")
    ELSE IF fromAddress # "pending" /\ ToLower(tx.from) # ToLower(fromAddress)
         THEN Invalid("Sender address mismatch")
    ELSE IF ToLower(tx.to) # ToLower(toAddress) THEN Invalid("Recipient address mismatch")
    ELSE IF ParseEtherThrows(amount) THEN VerifyCatch
    ELSE IF Abs(tx.value - ParseEther(amount)) > EthTolerance
         THEN [valid |-> FALSE, error |-> "Amount mismatch", actualSender |-> tx.from]
    ELSE [valid |-> TRUE, error |-> NULL, actualSender |-> tx.from]

\* The switch of confirm-deposit that picks the verifier for the chain.
Verify(session, depositSignature, threw) ==
    LET c == ChainLower(session.chain) IN
    IF IsSolana(c)
    THEN VerifyTransaction(depositSignature, session.senderAddress,
                           TargetPoolAddress(c), session.amount, threw)
    ELSE VerifyEthTransaction(depositSignature, session.senderAddress,
                              TargetPoolAddress(c), session.amount,
                              IF IsEthereum(c) THEN "eth" ELSE "bnb", threw)

\* ------------------------------------------------------ the verifiers alone
\* A call of a verifier and what it returned.
VerifierCall(chain, signature, fromAddress, toAddress, amount, threw, result) ==
    [chain |-> chain, signature |-> signature, fromAddress |-> fromAddress,
     toAddress |-> toAddress, amount |-> amount, threw |-> threw,
     valid |-> result.valid, error |-> result.error,
     actualSender |-> result.actualSender]

\* No verifier has been called.
NoVerify == VerifierCall(NULL, NULL, NULL, NULL, NULL, FALSE, Invalid(NULL))

\* The amounts a verifier is called with: decimal strings and a string
\* that is no number.
VerifierAmounts == {"0.01", "0.000003", "0.000065", "abc"}

\* verifyTransaction called with the configured Solana pool address.
VerifySolanaCall ==
    /\ poolAddress # NULL
    /\ \E signature \in VerifierTxIds, fromAddress \in {"SoAlice", "SoBob", "pending"},
          amount \in VerifierAmounts, threw \in BOOLEAN:
         lastVerify' = VerifierCall("solana", signature, fromAddress, poolAddress, amount,
                         threw,
                         VerifyTransaction(signature, fromAddress, poolAddress, amount,
                                           threw))
    /\ UNCHANGED <<poolAddress, ethPoolAddress, bnbPoolAddress, sessions, requests,
                   payouts, lastCreate, lastRead,
                 battleVars, priceVars>>

\* verifyEthTransaction called with ethProvider or bnbProvider and the
\* configured pool address of that chain.
VerifyEvmCall ==
    /\ \E provider \in {"eth", "bnb"}:
         LET toAddress == IF provider = "eth" THEN ethPoolAddress ELSE bnbPoolAddress IN
         /\ toAddress # NULL
         /\ \E txHash \in VerifierTxIds,
               fromAddress \in {"0xalice", "0xALICE", "0xbob", "pending"},
               amount \in VerifierAmounts, threw \in BOOLEAN:
              lastVerify' = VerifierCall(provider, txHash, fromAddress, toAddress, amount,
                              threw,
                              VerifyEthTransaction(txHash, fromAddress, toAddress, amount,
                                                   provider, threw))
    /\ UNCHANGED <<poolAddress, ethPoolAddress, bnbPoolAddress, sessions, requests,
                   payouts, lastCreate, lastRead,
                 battleVars, priceVars>>

\* --------------------------------------------------------- payout dispatcher
\* Dispatchers that deduct no fee.
NetworkFeeNone(c) == 0

\* The fixed fee each dispatcher deducts, in the chain's value unit.
NetworkFee(c) ==
    CASE IsSolana(c) -> NETWORK_FEE_LAMPORTS
      [] IsEthereum(c) -> EthGasFee
      [] OTHER -> BnbGasFee

\* depositedLamports / depositedWei of the three dispatchers, called with
\* parseFloat(session.amount).
Deposited(c, amount) ==
    IF IsSolana(c) THEN FloorLamports(amount)
    ELSE ParseEther(amount)

\* payoutLamports / payoutWei.
PayoutValue(c, amount) == Deposited(c, amount) - NetworkFee(c)

\* "Amount too small to cover network fee": thrown before any submission.
AmountTooSmall(c, amount) == PayoutValue(c, amount) <= 0

\* ------------------------------------------------------------ session store
SessionIds == 1..Len(sessions)

\* DatabaseStorage.createMixerSession: the inserted row; columns the insert
\* does not name get the table's defaults.
NewSessionRow(id, insertSession) ==
    [id |-> id,
     chain |-> insertSession.chain,
     senderAddress |-> insertSession.senderAddress,
     recipientAddress |-> insertSession.recipientAddress,
     amount |-> insertSession.amount,
     status |-> insertSession.status,
     depositSignature |-> NULL,
     payoutSignature |-> NULL,
     createdAt |-> id,
     depositConfirmedAt |-> NULL,
     payoutSentAt |-> NULL]

\* No row (undefined): id 0 is the id of no session.
NoSession ==
    NewSessionRow(0, [chain |-> NULL, senderAddress |-> NULL,
                      recipientAddress |-> NULL, amount |-> NULL, status |-> NULL])

\* A store whose select of one session returns only pending rows.
GetMixerSessionPendingOnly(id) ==
    IF id \in SessionIds /\ sessions[id].status = "pending" THEN sessions[id]
    ELSE NoSession

\* DatabaseStorage.getMixerSession: the row, or NoSession.
GetMixerSession(id) == IF id \in SessionIds THEN sessions[id] ELSE NoSession

\* UPDATE mixer_sessions SET updates WHERE id = id: the columns named in
\* updates are overwritten, whatever the row holds; the others are kept.
UpdatedRow(row, updates) ==
    [f \in DOMAIN row |-> IF f \in DOMAIN updates THEN updates[f] ELSE row[f]]

\* DatabaseStorage.updateMixerSession
UpdateMixerSession(id, updates) ==
    IF id \in SessionIds
    THEN [sessions EXCEPT ![id] = UpdatedRow(sessions[id], updates)]
    ELSE sessions

\* ------------------------------------------------- POST /api/mixer/sessions
\* The request bodies a client sends.  chain = NULL: the field is absent
\* and defaults to "solana".
CreateBodies ==
    { [chain |-> "solana", senderAddress |-> "SoAlice",
       recipientAddress |-> "SoBob", amount |-> "0.01"],
      [chain |-> NULL, senderAddress |-> "SoAlice",
       recipientAddress |-> "SoBob", amount |-> "0.000003"],
      [chain |-> "ETH", senderAddress |-> "0xalice",
       recipientAddress |-> "0xbob", amount |-> "0.01"],
      [chain |-> "bnb", senderAddress |-> "0xalice",
       recipientAddress |-> "0xbob", amount |-> "0.01"],
      [chain |-> "Solana", senderAddress |-> "SoAlice",
       recipientAddress |-> "SoBob", amount |-> "0.000065"],
      [chain |-> "solana", senderAddress |-> "pending",
       recipientAddress |-> "SoBob", amount |-> "0.01"],
      [chain |-> "eth", senderAddress |-> "0xalice",
       recipientAddress |-> NULL, amount |-> "0.01"],
      [chain |-> "doge", senderAddress |-> "SoAlice",
       recipientAddress |-> "SoBob", amount |-> "0.01"] }

\* The bodies of the specification of the create handler: those above
\* and bodies with other amounts, malformed addresses and missing fields.
\* An amount is a JSON string, or a JSON number written with a leading #.
CreateRequestBodies ==
    CreateBodies \cup
    { [chain |-> "solana", senderAddress |-> "SoAlice",
       recipientAddress |-> "SoBob", amount |-> "0"],
      [chain |-> "ETH", senderAddress |-> "0xalice",
       recipientAddress |-> "0xbob", amount |-> "-1"],
      [chain |-> "bsc", senderAddress |-> "0xalice",
       recipientAddress |-> "0xbob", amount |-> "abc"],
      [chain |-> "solana", senderAddress |-> "SoAlice",
       recipientAddress |-> "SoBob", amount |-> "#0"],
      [chain |-> "ethereum", senderAddress |-> "0xalice",
       recipientAddress |-> "0xbob", amount |-> "#0.01"],
      [chain |-> "solana", senderAddress |-> "SoAlice",
       recipientAddress |-> "SoBob", amount |-> NULL],
      [chain |-> "bnb", senderAddress |-> "",
       recipientAddress |-> "0xbob", amount |-> "0.01"],
      [chain |-> NULL, senderAddress |-> "SoAlice",
       recipientAddress |-> "0xbob", amount |-> "0.01"],
      [chain |-> "eth", senderAddress |-> "0xalice",
       recipientAddress |-> "0xzz", amount |-> "0.01"],
      [chain |-> "bsc", senderAddress |-> "SoAlice",
       recipientAddress |-> "0xbob", amount |-> "0.01"],
      [chain |-> "eth", senderAddress |-> "pending",
       recipientAddress |-> "0xbob", amount |-> "0.01"] }

BodyChain(body) == ChainLower(IF body.chain = NULL THEN "solana" ELSE body.chain)

\* !value: the field is absent, the empty string or the number 0.
Falsy(value) == value \in {NULL, "", "#0"}

\* amount.toString(): a string is itself, a number is its decimal text.
AmountToString(amount) ==
    CASE amount = "#0.01" -> "0.01"
      [] OTHER -> amount

\* A handler that never looks at the pool addresses.
CreateStatusNoPoolCheck(body) ==
    LET c == BodyChain(body) IN
    IF Falsy(body.senderAddress) \/ Falsy(body.recipientAddress) \/ Falsy(body.amount)
    THEN 400
    ELSE IF IsSolana(c) THEN
        IF ~(IsValidSolAddress(body.senderAddress)
             /\ IsValidSolAddress(body.recipientAddress)) THEN 400
        ELSE 201
    ELSE IF IsEthereum(c) \/ IsBnb(c) THEN
        IF ~IsValidEthAddress(body.senderAddress)
           \/ ~IsValidEthAddress(body.recipientAddress) THEN 400
        ELSE 201
    ELSE 400

\* The HTTP status of POST /api/mixer/sessions for a body.
CreateStatus(body) ==
    LET c == BodyChain(body) IN
    IF Falsy(body.senderAddress) \/ Falsy(body.recipientAddress) \/ Falsy(body.amount)
    THEN 400
    ELSE IF IsSolana(c) THEN
        IF poolAddress = NULL THEN 503
        ELSE IF ~(IsValidSolAddress(body.senderAddress)
                  /\ IsValidSolAddress(body.recipientAddress)) THEN 400
        ELSE 201
    ELSE IF IsEthereum(c) THEN
        IF ethPoolAddress = NULL THEN 503
        ELSE IF ~IsValidEthAddress(body.senderAddress)
                \/ ~IsValidEthAddress(body.recipientAddress) THEN 400
        ELSE 201
    ELSE IF IsBnb(c) THEN
        IF bnbPoolAddress = NULL THEN 503
        ELSE IF ~IsValidEthAddress(body.senderAddress)
                \/ ~IsValidEthAddress(body.recipientAddress) THEN 400
        ELSE 201
    ELSE 400

\* The error text that goes with CreateStatus(body).
CreateError(body) ==
    LET c == BodyChain(body)
        status == CreateStatus(body)
    IN CASE status = 201 -> NULL
         [] Falsy(body.senderAddress) \/ Falsy(body.recipientAddress)
              \/ Falsy(body.amount) -> "Missing required fields"
         [] IsSolana(c) /\ status = 503 -> "Solana pool wallet not configured"
         [] IsSolana(c) -> "Invalid Solana address"
         [] IsEthereum(c) /\ status = 503 -> "ETH pool wallet not configured"
         [] IsEthereum(c) -> "Invalid Ethereum address"
         [] IsBnb(c) /\ status = 503 -> "BNB pool wallet not configured"
         [] IsBnb(c) -> "Invalid BNB address"
         [] OTHER -> "Unsupported chain"

\* The row the handler asks the store to insert.
InsertSession(body) ==
    [chain |-> BodyChain(body),
     senderAddress |-> body.senderAddress,
     recipientAddress |-> body.recipientAddress,
     amount |-> AmountToString(body.amount),
     status |-> "pending"]

\* A create request and its answer: the body, the status and error of the
\* response, and the fields of the 201 body (sessionId 0: none).
CreateAnswer(body, http, error, session, targetPoolAddress) ==
    [body |-> body, http |-> http, error |-> error,
     sessionId |-> session.id, poolAddress |-> targetPoolAddress,
     amount |-> session.amount, status |-> session.status, chain |-> session.chain]

\* No create request has been answered.
NoCreate ==
    CreateAnswer([chain |-> NULL, senderAddress |-> NULL, recipientAddress |-> NULL,
                  amount |-> NULL], 0, NULL, NoSession, NULL)

\* POST /api/mixer/sessions with a body.  A body that fails a check is
\* answered 400 or 503 and nothing is stored; otherwise the session is
\* inserted and answered 201, or the insert raises (stored = FALSE) and the
\* catch answers 500.
CreateRequest(body, stored) ==
    LET status == CreateStatus(body)
        session == NewSessionRow(Len(sessions) + 1, InsertSession(body))
    IN /\ IF status = 201 /\ stored
          THEN /\ sessions' = Append(sessions, session)
               /\ lastCreate' = CreateAnswer(body, 201, NULL, session,
                                             TargetPoolAddress(BodyChain(body)))
          ELSE /\ sessions' = sessions
               /\ lastCreate' =
                    IF status = 201
                    THEN CreateAnswer(body, 500, "Failed to create session", NoSession, NULL)
                    ELSE CreateAnswer(body, status, CreateError(body), NoSession, NULL)
       /\ UNCHANGED <<poolAddress, ethPoolAddress, bnbPoolAddress, requests, payouts,
                       lastVerify, lastRead,
                 battleVars, priceVars>>

\* The create requests of the relay's specification: those that store a
\* session.  A request that is turned away, or whose insert raises, leaves
\* only its answer, which no handler reads.
CreateSession ==
    /\ Len(sessions) < MaxSessions
    /\ \E body \in CreateBodies:
         /\ CreateStatus(body) = 201
         /\ CreateRequest(body, TRUE)

\* ------------------------- POST /api/mixer/sessions/:id/confirm-deposit
RequestIds == 1..MaxRequests

\* What the chain returns as the identifier of request r's payout.
PayoutSignatureOf(r) == <<"payout1", "payout2", "payout3", "payout4">>[r]

\* new Date() as evaluated by request r.
DateOf(r) == <<"t1", "t2", "t3", "t4">>[r]

\* A request: its position (pc), the handler's locals (id,
\* depositSignature, session, verification, payoutSignature), its response
\* (http, error, details) and a record of what it did: verdict (what the
\* verifier returned: "none" while it has not run, then "valid" or
\* "invalid"), threw (the chain lookup raised), writes (the session updates
\* of this request that the store applied), raised (an update of this
\* request raised in the store).
IdleRequest ==
    [pc |-> "idle", id |-> 0, depositSignature |-> NULL, session |-> NoSession,
     verification |-> Invalid(NULL), payoutSignature |-> NULL,
     http |-> 0, error |-> NULL, details |-> NULL,
     verdict |-> "none", threw |-> FALSE, writes |-> 0, raised |-> FALSE]

\* res.status(http).json(...): the handler returns and its locals are gone.
\* The 200 body carries depositSignature and payoutSignature; the error
\* bodies carry error and details.
Respond(req, http, error, details) ==
    [IdleRequest EXCEPT
       !.pc = "done", !.id = req.id,
       !.http = http, !.error = error, !.details = details,
       !.depositSignature = IF http = 200 THEN req.depositSignature ELSE NULL,
       !.payoutSignature = IF http = 200 THEN req.payoutSignature ELSE NULL,
       !.verdict = req.verdict, !.threw = req.threw, !.writes = req.writes,
       !.raised = req.raised]

\* The handler without its guard: every session is let through.
IsPendingGuardMissing(session) == TRUE

\* if (session.status !== "pending") return 400: the single-use guard.
IsPending(session) == session.status = "pending"

\* The handler without the check of the verdict.
VerificationNotChecked(verification) == TRUE

\* if (!verification.valid) return 400.
VerificationPassed(verification) == verification.valid

\* updateData that forgets the deposit's transaction id.
DepositUpdateDataNoSignature(r, session, depositSignature, verification) ==
    [status |-> "deposit_confirmed", depositConfirmedAt |-> DateOf(r)]

\* updateData that takes the sender from the chain whenever the verifier
\* returned one.
DepositUpdateDataAlwaysBackfills(r, session, depositSignature, verification) ==
    LET base == [depositSignature |-> depositSignature,
                 status |-> "deposit_confirmed",
                 depositConfirmedAt |-> DateOf(r)]
    IN IF verification.actualSender # NULL
       THEN [f \in DOMAIN base \cup {"senderAddress"} |->
               IF f = "senderAddress" THEN verification.actualSender ELSE base[f]]
       ELSE base

\* updateData of the handler.
DepositUpdateData(r, session, depositSignature, verification) ==
    LET base == [depositSignature |-> depositSignature,
                 status |-> "deposit_confirmed",
                 depositConfirmedAt |-> DateOf(r)]
    IN IF session.senderAddress = "pending" /\ verification.actualSender # NULL
       THEN [f \in DOMAIN base \cup {"senderAddress"} |->
               IF f = "senderAddress" THEN verification.actualSender ELSE base[f]]
       ELSE base

\* A success path that stores the status without the payout's identifier.
CompletedUpdateDataNoSignature(r, payoutSignature) ==
    [status |-> "completed", payoutSentAt |-> DateOf(r)]

\* The update of the success path.
CompletedUpdateData(r, payoutSignature) ==
    [payoutSignature |-> payoutSignature,
     status |-> "completed",
     payoutSentAt |-> DateOf(r)]

\* A catch that also zeroes the amount of the session.
PayoutFailedUpdateDataZeroesAmount == [status |-> "payout_failed", amount |-> "0"]

\* The update of the payoutError catch.
PayoutFailedUpdateData == [status |-> "payout_failed"]

\* A handler that answers an unknown session id like a session that is
\* not pending.
ConfirmArrivalUnknownIs400(req0, id, depositSignature, threw) ==
    LET req == [req0 EXCEPT !.id = id, !.depositSignature = depositSignature]
        session == GetMixerSession(id)
        verification == Verify(session, depositSignature, threw)
        ran == [req EXCEPT !.session = session, !.threw = threw,
                           !.verification = verification,
                           !.verdict = IF verification.valid THEN "valid"
                                       ELSE "invalid"]
    IN IF depositSignature = NULL
       THEN Respond(req, 400, "Deposit signature required", NULL)
       ELSE IF session = NoSession \/ ~IsPending(session)
       THEN Respond(req, 400, "Session not in pending state", NULL)
       ELSE IF ~VerificationPassed(verification)
       THEN Respond(ran, 400, "Deposit verification failed", verification.error)
       ELSE [ran EXCEPT !.pc = "writeDeposit"]

\* The handler from its entry to the verdict of the verifier, for a
\* request with locals req0: it checks the body, reads the session (first
\* await), applies the pending guard to what it read and runs the
\* verifier; a failed verification is answered with 400 and the reason.
\* threw: the chain lookup raised.  id 0 stands for every id that no
\* session has.
ConfirmArrival(req0, id, depositSignature, threw) ==
    LET req == [req0 EXCEPT !.id = id, !.depositSignature = depositSignature]
        session == GetMixerSession(id)
        verification == Verify(session, depositSignature, threw)
        ran == [req EXCEPT !.session = session, !.threw = threw,
                           !.verification = verification,
                           !.verdict = IF verification.valid THEN "valid"
                                       ELSE "invalid"]
    IN IF depositSignature = NULL
       THEN Respond(req, 400, "Deposit signature required", NULL)
       ELSE IF session = NoSession
       THEN Respond(req, 404, "Session not found", NULL)
       ELSE IF ~IsPending(session)
       THEN Respond(req, 400, "Session not in pending state", NULL)
       ELSE IF ~VerificationPassed(verification)
       THEN Respond(ran, 400, "Deposit verification failed", verification.error)
       ELSE [ran EXCEPT !.pc = "writeDeposit"]

\* The request arrives and runs up to the verdict of the verifier.  The
\* verifier's awaits fall inside this action: between the read and the
\* verdict the handler touches only its own locals and the chain's deposit
\* transactions, which the program never changes, so every interleaving
\* with other requests is equivalent to one where the verifier runs right
\* after the guard.
ConfirmStart(r) ==
    /\ requests[r].pc = "idle"
    /\ \A q \in RequestIds: q < r => requests[q].pc # "idle"
    /\ \E id \in SessionIds \cup {0}, depositSignature \in TxIds \cup {NULL},
          threw \in BOOLEAN:
         requests' = [requests EXCEPT ![r] =
                        ConfirmArrival(requests[r], id, depositSignature, threw)]
    /\ UNCHANGED <<poolAddress, ethPoolAddress, bnbPoolAddress, sessions, payouts,
                   lastCreate, lastVerify, lastRead,
                 battleVars, priceVars>>

\* await storage.updateMixerSession(id, updateData).  stored = FALSE: the
\* store raised, which the handler's outer catch answers with 500.
ConfirmWriteDeposit(r) ==
    /\ requests[r].pc = "writeDeposit"
    /\ \E stored \in BOOLEAN:
         LET req == requests[r] IN
         IF stored
         THEN /\ sessions' = UpdateMixerSession(req.id,
                    DepositUpdateData(r, req.session, req.depositSignature, req.verification))
              /\ requests' = [requests EXCEPT ![r] =
                    [req EXCEPT !.pc = "payout", !.writes = @ + 1]]
         ELSE /\ sessions' = sessions
              /\ requests' = [requests EXCEPT ![r] =
                    Respond([req EXCEPT !.raised = TRUE], 500,
                            "Failed to confirm deposit", NULL)]
    /\ UNCHANGED <<poolAddress, ethPoolAddress, bnbPoolAddress, payouts, lastCreate,
                 lastVerify, lastRead,
                 battleVars, priceVars>>

\* sendFromPool / sendFromPoolETH / sendFromPoolBNB.  The handler calls the
\* dispatcher as soon as the deposit update has returned, so a request at
\* "payout" is inside the dispatcher; this action is the dispatcher's
\* return.  The dispatcher throws before submitting when the pool wallet is
\* absent or the amount does not cover the fee; otherwise it signs the
\* transfer with the pool key and submits it, and the chain confirms the
\* transfer (confirmed) or the submission fails and the dispatcher throws.
ConfirmPayout(r) ==
    /\ requests[r].pc = "payout"
    /\ \E confirmed \in BOOLEAN:
         LET req == requests[r]
             c == ChainLower(req.session.chain)
         IN IF TargetPoolAddress(c) # NULL
               /\ ~AmountTooSmall(c, req.session.amount)
               /\ confirmed
            THEN /\ payouts' = payouts \cup
                       {[session |-> req.id, by |-> r,
                         to |-> req.session.recipientAddress,
                         value |-> PayoutValue(c, req.session.amount),
                         signature |-> PayoutSignatureOf(r)]}
                 /\ requests' = [requests EXCEPT ![r] =
                       [req EXCEPT !.pc = "writeCompleted",
                                   !.payoutSignature = PayoutSignatureOf(r)]]
            ELSE /\ payouts' = payouts
                 /\ requests' = [requests EXCEPT ![r] = [req EXCEPT !.pc = "writeFailed"]]
    /\ UNCHANGED <<poolAddress, ethPoolAddress, bnbPoolAddress, sessions, lastCreate,
                 lastVerify, lastRead,
                 battleVars, priceVars>>

\* await storage.updateMixerSession(id, {payoutSignature, status:
\* "completed", payoutSentAt}) inside the try: when the store raises, the
\* payoutError catch runs.
ConfirmWriteCompleted(r) ==
    /\ requests[r].pc = "writeCompleted"
    /\ \E stored \in BOOLEAN:
         LET req == requests[r] IN
         IF stored
         THEN /\ sessions' = UpdateMixerSession(req.id,
                    CompletedUpdateData(r, req.payoutSignature))
              /\ requests' = [requests EXCEPT ![r] =
                    Respond([req EXCEPT !.writes = @ + 1], 200, NULL, NULL)]
         ELSE /\ sessions' = sessions
              /\ requests' = [requests EXCEPT ![r] =
                    [req EXCEPT !.pc = "writeFailed", !.raised = TRUE]]
    /\ UNCHANGED <<poolAddress, ethPoolAddress, bnbPoolAddress, payouts, lastCreate,
                 lastVerify, lastRead,
                 battleVars, priceVars>>

\* The payoutError catch: await storage.updateMixerSession(id, {status:
\* "payout_failed"}), then 500.  When this update raises too, the outer
\* catch answers 500.
ConfirmWriteFailed(r) ==
    /\ requests[r].pc = "writeFailed"
    /\ \E stored \in BOOLEAN:
         LET req == requests[r] IN
         IF stored
         THEN /\ sessions' = UpdateMixerSession(req.id, PayoutFailedUpdateData)
              /\ requests' = [requests EXCEPT ![r] =
                    Respond([req EXCEPT !.writes = @ + 1], 500, "Payout failed", NULL)]
         ELSE /\ sessions' = sessions
              /\ requests' = [requests EXCEPT ![r] =
                    Respond([req EXCEPT !.raised = TRUE], 500,
                            "Failed to confirm deposit", NULL)]
    /\ UNCHANGED <<poolAddress, ethPoolAddress, bnbPoolAddress, payouts, lastCreate,
                 lastVerify, lastRead,
                 battleVars, priceVars>>

\* ------------------------------------------------------------ read handlers
\* The object both GET handlers answer for a row.
SessionProjection(s) ==
    [sessionId |-> s.id, status |-> s.status, amount |-> s.amount, chain |-> s.chain,
     recipientAddress |-> s.recipientAddress, depositSignature |-> s.depositSignature,
     payoutSignature |-> s.payoutSignature, createdAt |-> s.createdAt]

\* A GET and its answer: the id or the address asked for, the status and
\* error of the response, the projections of its body, and the rows the
\* store returned.
ReadAnswer(kind, id, address, http, error, body, rows) ==
    [kind |-> kind, id |-> id, address |-> address, http |-> http, error |-> error,
     body |-> body, rows |-> rows]

\* No GET has been answered.
NoRead == ReadAnswer(NULL, 0, NULL, 0, NULL, <<>>, <<>>)

\* A select by sender address that returns only pending rows.
GetMixerSessionsByAddressPendingOnly(address) ==
    SelectSeq([i \in 1..Len(sessions) |-> sessions[Len(sessions) + 1 - i]],
              LAMBDA s: s.senderAddress = address /\ s.status = "pending")

\* DatabaseStorage.getMixerSessionsByAddress: the rows whose senderAddress
\* is the address, latest createdAt first.
GetMixerSessionsByAddress(address) ==
    SelectSeq([i \in 1..Len(sessions) |-> sessions[Len(sessions) + 1 - i]],
              LAMBDA s: s.senderAddress = address)

\* sessions.map(s => ({...})).
ProjectionsOf(rows) == [i \in 1..Len(rows) |-> SessionProjection(rows[i])]

\* What GET /api/mixer/sessions/:id answers.  raised: the select raised and
\* the catch answers 500.
GetSessionAnswer(id, raised) ==
    LET session == GetMixerSession(id) IN
    IF raised
    THEN ReadAnswer("get", id, NULL, 500, "Failed to fetch session", <<>>, <<>>)
    ELSE IF session = NoSession
    THEN ReadAnswer("get", id, NULL, 404, "Session not found", <<>>, <<>>)
    ELSE ReadAnswer("get", id, NULL, 200, NULL, <<SessionProjection(session)>>,
                    <<session>>)

\* What GET /api/mixer/sessions?address=... answers.  raised: the select
\* raised.
ListSessionsAnswer(address, raised) ==
    LET rows == GetMixerSessionsByAddress(address) IN
    IF address = NULL \/ address = ""
    THEN ReadAnswer("list", 0, address, 400, "Address parameter required", <<>>, <<>>)
    ELSE IF raised
    THEN ReadAnswer("list", 0, address, 500, "Failed to fetch sessions", <<>>, <<>>)
    ELSE ReadAnswer("list", 0, address, 200, NULL, ProjectionsOf(rows), rows)

\* A GET of one session that marks the row it read.
GetSessionTouching(id, raised) ==
    /\ lastRead' = GetSessionAnswer(id, raised)
    /\ sessions' = IF id \in SessionIds
                   THEN [sessions EXCEPT ![id].depositSignature = "read"]
                   ELSE sessions
    /\ UNCHANGED <<poolAddress, ethPoolAddress, bnbPoolAddress, requests, payouts,
                   lastCreate, lastVerify,
                 battleVars, priceVars>>

\* GET /api/mixer/sessions/:id: the handler only answers.
GetSession(id, raised) ==
    /\ lastRead' = GetSessionAnswer(id, raised)
    /\ UNCHANGED <<poolAddress, ethPoolAddress, bnbPoolAddress, sessions, requests,
                   payouts, lastCreate, lastVerify,
                 battleVars, priceVars>>

\* GET /api/mixer/sessions?address=...: the handler only answers.
ListSessions(address, raised) ==
    /\ lastRead' = ListSessionsAnswer(address, raised)
    /\ UNCHANGED <<poolAddress, ethPoolAddress, bnbPoolAddress, sessions, requests,
                   payouts, lastCreate, lastVerify,
                 battleVars, priceVars>>

\* The addresses the list is asked for; NULL: no address parameter.
QueryAddresses == {NULL, "", "SoAlice", "SoBob", "0xalice", "0xALICE"}

\* --------------------------------------------------------- trading battles
\* One battle between two agents is followed from its creation on.
MaxTicks == 2
MaxStarts == 2
MaxTrades == 1
\* The latest hour of the clock.
MaxClock == 2

Agents == {"agent1", "agent2"}

TickIds == 1..MaxTicks

StartIds == 1..MaxStarts

TradeIds == 1..MaxTrades

\* The shortest duration createBattleSchema accepts, in hours.
DurationHours == 1

\* The Elo points finalizeBattle moves from the loser to the winner.
EloChange == 20

\* No row yet; endsAt 0 is the null of a battle that has not been started.
NoBattle == [status |-> "none", endsAt |-> 0, winnerId |-> NULL]

\* The agents row of an agent; eloRating is counted from the agent's rating
\* when the battle was created.
NewAgent == [eloRating |-> 0, wins |-> 0, totalMatches |-> 0]

IdleTick == [pc |-> "idle", now |-> 0, winnerId |-> NULL, from |-> "none"]

IdleStart == [pc |-> "idle", http |-> 0, error |-> NULL]

IdleTrade == [pc |-> "idle", http |-> 0, error |-> NULL, insertedWhile |-> NULL]

\* POST /api/trading-battles: the battle is inserted as pending.
CreateBattle ==
    /\ battle.status = "none"
    /\ battle' = [status |-> "pending", endsAt |-> 0, winnerId |-> NULL]
    /\ UNCHANGED <<clock, agentStats, ticks, starts, trades, relayVars, priceVars>>

\* Time passes.
ClockAdvance ==
    /\ clock < MaxClock
    /\ clock' = clock + 1
    /\ UNCHANGED <<battle, agentStats, ticks, starts, trades, relayVars, priceVars>>

\* The WHERE clause of the scheduler's first query.
IsRunningAt(b, now) == b.status = "running" /\ b.endsAt > now

\* The WHERE clause of the scheduler's second query.
IsExpiredAt(b, now) == b.status = "running" /\ b.endsAt <= now

\* setInterval fires the callback, whether or not an earlier callback has
\* returned: it takes the time and selects the running battles.
TickFire(t) ==
    /\ ticks[t].pc = "idle"
    /\ \A u \in TickIds: u < t => ticks[u].pc # "idle"
    /\ ticks' = [ticks EXCEPT ![t] =
                   [pc |-> IF IsRunningAt(battle, clock) THEN "round" ELSE "expired",
                    now |-> clock, winnerId |-> NULL, from |-> "none"]]
    /\ UNCHANGED <<battle, clock, agentStats, starts, trades, relayVars, priceVars>>

\* The body of the loop over the running battles: the two trading
\* decisions and the round (neither writes the battle row), then the battle
\* is read again and finalized when its end is not after the tick's time. A
\* throw is logged and the loop goes on.
TickRound(t, threw) ==
    /\ ticks[t].pc = "round"
    /\ ticks' = [ticks EXCEPT ![t].pc =
                   IF ~threw /\ battle.endsAt # 0 /\ battle.endsAt <= ticks[t].now
                   THEN "finalizeRead" ELSE "expired",
                 ![t].from = "loop"]
    /\ UNCHANGED <<battle, clock, agentStats, starts, trades, relayVars, priceVars>>

\* The second query of the tick, with the time taken when the tick fired.
TickExpired(t) ==
    /\ ticks[t].pc = "expired"
    /\ ticks' = [ticks EXCEPT ![t].pc =
                   IF IsExpiredAt(battle, ticks[t].now) THEN "finalizeRead" ELSE "done",
                 ![t].from = "expired"]
    /\ UNCHANGED <<battle, clock, agentStats, starts, trades, relayVars, priceVars>>

\* finalizeBattle reads the battle and the two portfolios and takes the
\* agent with the larger total value as the winner (null on a tie); the
\* battle's status is not looked at.
FinalizeBattleRead(t, winnerId) ==
    /\ ticks[t].pc = "finalizeRead"
    /\ ticks' = [ticks EXCEPT ![t].pc = "finalizeStatus", ![t].winnerId = winnerId]
    /\ UNCHANGED <<battle, clock, agentStats, starts, trades, relayVars, priceVars>>

\* finalizeBattle's UPDATE of the battle, WHERE id only.
FinalizeBattleStatus(t) ==
    /\ ticks[t].pc = "finalizeStatus"
    /\ battle' = [battle EXCEPT !.status = "completed",
                                !.winnerId = ticks[t].winnerId]
    /\ ticks' = [ticks EXCEPT ![t].pc = "finalizeFirst"]
    /\ UNCHANGED <<clock, agentStats, starts, trades, relayVars, priceVars>>

Opponent(a) == IF a = "agent1" THEN "agent2" ELSE "agent1"

\* The first UPDATE of agents: the winner's, or agent1's on a tie.
FirstAgentUpdate(stats, winnerId) ==
    IF winnerId # NULL
    THEN [stats EXCEPT ![winnerId] =
            [eloRating |-> @.eloRating + EloChange,
             wins |-> @.wins + 1,
             totalMatches |-> @.totalMatches + 1]]
    ELSE [stats EXCEPT !["agent1"].totalMatches = @ + 1]

\* The second UPDATE of agents: the loser's, or agent2's on a tie.
SecondAgentUpdate(stats, winnerId) ==
    IF winnerId # NULL
    THEN [stats EXCEPT ![Opponent(winnerId)] =
            [eloRating |-> @.eloRating - EloChange,
             wins |-> @.wins,
             totalMatches |-> @.totalMatches + 1]]
    ELSE [stats EXCEPT !["agent2"].totalMatches = @ + 1]

FinalizeBattleFirst(t) ==
    /\ ticks[t].pc = "finalizeFirst"
    /\ agentStats' = FirstAgentUpdate(agentStats, ticks[t].winnerId)
    /\ ticks' = [ticks EXCEPT ![t].pc = "finalizeSecond"]
    /\ UNCHANGED <<battle, clock, starts, trades, relayVars, priceVars>>

\* After the second update finalizeBattle returns: to the second query
\* when it was called in the loop, to the end of the tick otherwise.
FinalizeBattleSecond(t) ==
    /\ ticks[t].pc = "finalizeSecond"
    /\ agentStats' = SecondAgentUpdate(agentStats, ticks[t].winnerId)
    /\ ticks' = [ticks EXCEPT ![t].pc =
                   IF ticks[t].from = "loop" THEN "expired" ELSE "done"]
    /\ UNCHANGED <<battle, clock, starts, trades, relayVars, priceVars>>

\* POST /api/trading-battles/:id/start up to its await of the price: 404
\* without a row, 400 unless the row read is pending.
StartArrive(q) ==
    /\ starts[q].pc = "idle"
    /\ starts' = [starts EXCEPT ![q] =
                    IF battle.status = "none"
                    THEN [pc |-> "done", http |-> 404, error |-> "Battle not found"]
                    ELSE IF battle.status # "pending"
                    THEN [pc |-> "done", http |-> 400,
                          error |-> "Battle is not in pending state"]
                    ELSE [pc |-> "price", http |-> 0, error |-> NULL]]
    /\ UNCHANGED <<battle, clock, agentStats, ticks, trades, relayVars, priceVars>>

\* The rest of the start handler, once the price is there: the UPDATE of
\* the battle, WHERE id only, with the end computed from the time of the
\* write; a raising query is answered 500.
StartWrite(q, raised) ==
    /\ starts[q].pc = "price"
    /\ IF raised
       THEN /\ starts' = [starts EXCEPT ![q] =
                            [pc |-> "done", http |-> 500,
                             error |-> "Failed to start battle"]]
            /\ UNCHANGED battle
       ELSE /\ battle' = [battle EXCEPT !.status = "running",
                                        !.endsAt = clock + DurationHours]
            /\ starts' = [starts EXCEPT ![q] =
                            [pc |-> "done", http |-> 200, error |-> NULL]]
    /\ UNCHANGED <<clock, agentStats, ticks, trades, relayVars, priceVars>>

\* POST /api/trading-battles/:id/trades of a well-formed trade of one of
\* the battle's agents, up to its await of the price: 404 without a row,
\* 400 unless the row read is running.
TradeArrive(q) ==
    /\ trades[q].pc = "idle"
    /\ trades' = [trades EXCEPT ![q] =
                    IF battle.status = "none"
                    THEN [pc |-> "done", http |-> 404, error |-> "Battle not found",
                          insertedWhile |-> NULL]
                    ELSE IF battle.status # "running"
                    THEN [pc |-> "done", http |-> 400, error |-> "Battle is not running",
                          insertedWhile |-> NULL]
                    ELSE [pc |-> "price", http |-> 0, error |-> NULL,
                          insertedWhile |-> NULL]]
    /\ UNCHANGED <<battle, clock, agentStats, ticks, starts, relayVars, priceVars>>

\* The rest of the trades handler: the portfolio is updated and the trade
\* inserted, answered 201; insertedWhile keeps the battle's status at the
\* insert.
TradeExecute(q) ==
    /\ trades[q].pc = "price"
    /\ trades' = [trades EXCEPT ![q] =
                    [pc |-> "done", http |-> 201, error |-> NULL,
                     insertedWhile |-> battle.status]]
    /\ UNCHANGED <<battle, clock, agentStats, ticks, starts, relayVars, priceVars>>

\* ----------------------------------------------------------- price service
MaxPriceCalls == 2
\* The latest time of Date.now(), in steps of 30 s.
MaxDateSteps == 2

PriceCallIds == 1..MaxPriceCalls

CACHE_TTL_MS == 60000

FALLBACK_PRICES == [bitcoin |-> 42000, ethereum |-> 2500, solana |-> 100,
                    binancecoin |-> 300]

\* The coins asked for: one with a fallback price and one without; the
\* currency is always usd, so the cache key is the coin.
Coins == {"bitcoin", "dogecoin"}

\* priceCache.get of a key that was never set.
NoEntry == [present |-> FALSE, price |-> 0, timestamp |-> 0]

CacheEntry(price, timestamp) ==
    [present |-> TRUE, price |-> price, timestamp |-> timestamp]

\* What the fetch of the price did: threw (network error, abort after
\* 10 s, a body that is not JSON), or answered with a status and, when ok,
\* a body that holds a price for the coin or not.
Response(threw, status, hasPrice, price) ==
    [threw |-> threw, status |-> status, hasPrice |-> hasPrice, price |-> price]

NoResponse == Response(FALSE, 0, FALSE, 0)

Responses ==
    {Response(TRUE, 0, FALSE, 0), Response(FALSE, 429, FALSE, 0),
     Response(FALSE, 500, FALSE, 0), Response(FALSE, 200, FALSE, 0)}
    \cup {Response(FALSE, 200, TRUE, p) : p \in {0, 43000, 43500}}

IdlePriceCall ==
    [pc |-> "idle", coinId |-> NULL, cached |-> NoEntry, response |-> NoResponse,
     fetched |-> FALSE, threw |-> FALSE, price |-> 0]

\* cached && Date.now() - cached.timestamp < CACHE_TTL_MS
IsFresh(cached, now) == cached.present /\ now - cached.timestamp < CACHE_TTL_MS

\* FALLBACK_PRICES[coinId] ?? 1000
FallbackPrice(coinId) ==
    IF coinId \in DOMAIN FALLBACK_PRICES THEN FALLBACK_PRICES[coinId] ELSE 1000

\* The price of the catch block and of the 429 branch: the entry read at
\* the call's start, else the fallback.
CachedOrFallbackForgetsCache(cached, coinId) == FallbackPrice(coinId)

CachedOrFallback(cached, coinId) ==
    IF cached.present THEN cached.price ELSE FallbackPrice(coinId)

\* response.ok, and the body holds a truthy price of the coin.
FetchSucceeded(response) ==
    /\ ~response.threw
    /\ response.status = 200
    /\ response.hasPrice
    /\ response.price # 0

\* getCryptoPrice up to its await of fetch: a fresh entry is returned at
\* once.
GetCryptoPriceEnter(k, coinId) ==
    /\ priceCalls[k].pc = "idle"
    /\ \A j \in PriceCallIds: j < k => priceCalls[j].pc # "idle"
    /\ priceCalls' = [priceCalls EXCEPT ![k] =
          IF IsFresh(priceCache[coinId], dateNow)
          THEN [pc |-> "done", coinId |-> coinId, cached |-> priceCache[coinId],
                response |-> NoResponse, fetched |-> FALSE, threw |-> FALSE,
                price |-> priceCache[coinId].price]
          ELSE [pc |-> "fetch", coinId |-> coinId, cached |-> priceCache[coinId],
                response |-> NoResponse, fetched |-> FALSE, threw |-> FALSE,
                price |-> 0]]
    /\ UNCHANGED <<priceCache, dateNow, relayVars, battleVars>>

\* getCryptoPrice from the answer of fetch on: the price is cached and
\* returned, or the catch block (and the 429 branch) returns the entry of
\* the call's start or the fallback.
GetCryptoPriceFetched(k, response) ==
    /\ priceCalls[k].pc = "fetch"
    /\ LET coinId == priceCalls[k].coinId
           cached == priceCalls[k].cached
       IN IF FetchSucceeded(response)
          THEN /\ priceCache' = [priceCache EXCEPT ![coinId] =
                                   CacheEntry(response.price, dateNow)]
               /\ priceCalls' = [priceCalls EXCEPT ![k] =
                     [pc |-> "done", coinId |-> coinId, cached |-> cached,
                      response |-> response, fetched |-> TRUE, threw |-> FALSE,
                      price |-> response.price]]
          ELSE /\ UNCHANGED priceCache
               /\ priceCalls' = [priceCalls EXCEPT ![k] =
                     [pc |-> "done", coinId |-> coinId, cached |-> cached,
                      response |-> response, fetched |-> TRUE, threw |-> FALSE,
                      price |-> CachedOrFallback(cached, coinId)]]
    /\ UNCHANGED <<dateNow, relayVars, battleVars>>

\* 30 s pass.
DateAdvance ==
    /\ dateNow < MaxDateSteps * 30000
    /\ dateNow' = dateNow + 30000
    /\ UNCHANGED <<priceCache, priceCalls, relayVars, battleVars>>

\* ------------------------------------------------------------ specification
\* The deployments of the model (every key configured, only the ETH key,
\* no key): which pool keys the configuration holds
\* (initializePoolWallet, initializeEthPoolWallet, initializeBnbPoolWallet
\* leave the address null when the key is absent).
PoolConfigs ==
    { [solana |-> "SoPool", eth |-> "0xpool", bnb |-> "0xbnbpool"],
      [solana |-> NULL, eth |-> "0xpool", bnb |-> NULL],
      [solana |-> NULL, eth |-> NULL, bnb |-> NULL] }

\* After module load: the pool wallets are initialized from the
\* configuration, the table is empty, no request runs.
Init ==
    /\ \E config \in PoolConfigs:
         /\ poolAddress = config.solana
         /\ ethPoolAddress = config.eth
         /\ bnbPoolAddress = config.bnb
    /\ sessions = <<>>
    /\ requests = [r \in RequestIds |-> IdleRequest]
    /\ payouts = {}
    /\ lastCreate = NoCreate
    /\ lastVerify = NoVerify
    /\ lastRead = NoRead
    /\ battle = NoBattle
    /\ clock = 0
    /\ agentStats = [a \in Agents |-> NewAgent]
    /\ ticks = [t \in TickIds |-> IdleTick]
    /\ starts = [q \in StartIds |-> IdleStart]
    /\ trades = [q \in TradeIds |-> IdleTrade]
    /\ priceCache = [c \in Coins |-> NoEntry]
    /\ dateNow = 0
    /\ priceCalls = [k \in PriceCallIds |-> IdlePriceCall]

Next ==
    \/ CreateSession
    \/ \E r \in RequestIds: ConfirmStart(r)
    \/ \E r \in RequestIds: ConfirmWriteDeposit(r)
    \/ \E r \in RequestIds: ConfirmPayout(r)
    \/ \E r \in RequestIds: ConfirmWriteCompleted(r)
    \/ \E r \in RequestIds: ConfirmWriteFailed(r)

Spec == Init /\ [][Next]_vars

\* The create handler on its own: every request body, answered or stored.
CreateAny ==
    /\ Len(sessions) < MaxCreated
    /\ \E body \in CreateRequestBodies, stored \in BOOLEAN: CreateRequest(body, stored)

SpecCreate == Init /\ [][CreateAny]_vars

\* The relay with several sessions: create requests that store a session,
\* up to MaxCreated of them, and confirm-deposit requests on them.
CreateMore ==
    /\ Len(sessions) < MaxCreated
    /\ \E body \in CreateBodies:
         /\ CreateStatus(body) = 201
         /\ CreateRequest(body, TRUE)

NextConcurrent ==
    \/ CreateMore
    \/ \E r \in RequestIds: ConfirmStart(r)
    \/ \E r \in RequestIds: ConfirmWriteDeposit(r)
    \/ \E r \in RequestIds: ConfirmPayout(r)
    \/ \E r \in RequestIds: ConfirmWriteCompleted(r)
    \/ \E r \in RequestIds: ConfirmWriteFailed(r)

SpecConcurrent == Init /\ [][NextConcurrent]_vars

\* The deposit verifiers on their own, each called with every argument.
NextVerify ==
    \/ VerifySolanaCall
    \/ VerifyEvmCall

SpecVerify == Init /\ [][NextVerify]_vars

\* The relay with its two read handlers: sessions are created and a
\* confirm-deposit request works on one of them, while GET requests for
\* every id and address come in between any two steps.
GetAny == \E id \in 0..MaxCreated, raised \in BOOLEAN: GetSession(id, raised)

ListAny == \E address \in QueryAddresses, raised \in BOOLEAN: ListSessions(address, raised)

NextRead ==
    \/ CreateMore
    \/ ConfirmStart(1)
    \/ ConfirmWriteDeposit(1)
    \/ ConfirmPayout(1)
    \/ ConfirmWriteCompleted(1)
    \/ ConfirmWriteFailed(1)
    \/ GetAny
    \/ ListAny

SpecRead == Init /\ [][NextRead]_vars

\* The trading battles alone: one battle, the scheduler's ticks, the start
\* and the trade requests, in every interleaving of their steps.
NextBattle ==
    \/ CreateBattle
    \/ ClockAdvance
    \/ \E t \in TickIds: TickFire(t)
    \/ \E t \in TickIds, threw \in BOOLEAN: TickRound(t, threw)
    \/ \E t \in TickIds: TickExpired(t)
    \/ \E t \in TickIds, winnerId \in Agents \cup {NULL}: FinalizeBattleRead(t, winnerId)
    \/ \E t \in TickIds: FinalizeBattleStatus(t)
    \/ \E t \in TickIds: FinalizeBattleFirst(t)
    \/ \E t \in TickIds: FinalizeBattleSecond(t)
    \/ \E q \in StartIds: StartArrive(q)
    \/ \E q \in StartIds, raised \in BOOLEAN: StartWrite(q, raised)
    \/ \E q \in TradeIds: TradeArrive(q)
    \/ \E q \in TradeIds: TradeExecute(q)

SpecBattle == Init /\ [][NextBattle]_vars

\* The price service alone: calls of getCryptoPrice, which interleave at
\* their awaits, and the passing of time.
NextPrice ==
    \/ DateAdvance
    \/ \E k \in PriceCallIds, coinId \in Coins: GetCryptoPriceEnter(k, coinId)
    \/ \E k \in PriceCallIds, response \in Responses: GetCryptoPriceFetched(k, response)

SpecPrice == Init /\ [][NextPrice]_vars

\* ------------------------------------------------------------------ claims
PayoutsOf(i) == {p \in payouts: p.session = i}

PayoutsBy(r) == {p \in payouts: p.by = r}

\* The step in which request r arrives and is answered or passes on.
StartStep(r) == requests[r].pc = "idle" /\ requests'[r].pc # "idle"

\* C1: in every reachable state and for every session, payoutSignature is
\* set if and only if status = completed, also when several confirm-deposit
\* requests on the same session interleave.
C1_PayoutSignatureIffCompleted ==
    \A i \in SessionIds:
      (sessions[i].payoutSignature # NULL) <=> (sessions[i].status = "completed")

\* C2: concurrent confirm-deposit requests on one pending session: at most
\* one passes the guard, so at most one payout transaction is ever
\* submitted for a session.
C2_AtMostOnePayoutPerSession ==
    \A i \in SessionIds: Cardinality(PayoutsOf(i)) <= 1

C4_PayoutOnlyAfterVerifiedDeposit ==
    \A p \in payouts:
      /\ requests[p.by].id = p.session
      /\ requests[p.by].verdict = "valid"
      /\ requests[p.by].writes >= 1
      /\ p.session \in SessionIds
      /\ sessions[p.session].depositSignature # NULL
      /\ sessions[p.session].status \in {"deposit_confirmed", "completed", "payout_failed"}

\* C4's case: a payout was submitted and confirmed.
C4_Witness == payouts # {}

\* The order pending -> deposit_confirmed -> {completed, payout_failed}.
Forward(from, to) ==
    \/ to = from
    \/ from = "pending" /\ to = "deposit_confirmed"
    \/ from = "deposit_confirmed" /\ to \in {"completed", "payout_failed"}

\* C5: a session's status only moves forward in the order pending ->
\* deposit_confirmed -> {completed, payout_failed}; no step of any
\* execution, concurrent requests included, moves it back.
C5_StatusForwardOnly ==
    [][\A i \in SessionIds: Forward(sessions[i].status, sessions'[i].status)]_vars

\* C6: completed and payout_failed are terminal: once a session is stored
\* with one of them, no later step of any request changes its status or
\* any other field.
C6_TerminalFrozen ==
    [][\A i \in SessionIds:
         sessions[i].status \in {"completed", "payout_failed"}
           => sessions'[i] = sessions[i]]_vars

\* C7: in every reachable state and for every session, depositSignature is
\* set if and only if status is deposit_confirmed, completed or
\* payout_failed.
C7_DepositSignatureIffLeftPending ==
    \A i \in SessionIds:
      (sessions[i].depositSignature # NULL)
        <=> (sessions[i].status \in {"deposit_confirmed", "completed", "payout_failed"})

\* C7's case: a session whose deposit was confirmed, after its payout failed.
C7_Witness ==
    \E i \in SessionIds:
      sessions[i].status = "payout_failed" /\ sessions[i].depositSignature # NULL

\* What the chain holds for a deposit transaction id, in one shape for the
\* three chains: origin, destination, value moved, and whether it failed.
DepositFacts(c, depositSignature) ==
    IF IsSolana(c)
    THEN LET t == SolanaTx(depositSignature) IN
         IF ~t.found THEN NotFound
         ELSE [found |-> TRUE, failed |-> t.err, from |-> t.key0, to |-> t.key1,
               value |-> t.pre0 - t.post0 - t.fee]
    ELSE LET t == EvmTx(IF IsEthereum(c) THEN "eth" ELSE "bnb", depositSignature) IN
         IF ~t.found THEN NotFound
         ELSE [found |-> TRUE, failed |-> ~t.receipt \/ t.status = 0,
               from |-> ToLower(t.from), to |-> ToLower(t.to), value |-> t.value]

\* The reasons for which a deposit must be refused: not found, failed on
\* chain, sender mismatch, recipient mismatch, amount mismatch.
DepositFault(session, depositSignature) ==
    LET c == session.chain
        t == DepositFacts(c, depositSignature)
        expected == IF IsSolana(c) THEN ParseFloatMicro(session.amount) * LamportsPerMicro
                    ELSE ParseFloatMicro(session.amount)
        tolerance == IF IsSolana(c) THEN SolToleranceLamports ELSE EthTolerance
        sender == IF IsSolana(c) THEN session.senderAddress
                  ELSE ToLower(session.senderAddress)
    IN \/ ~t.found
       \/ t.failed
       \/ t.from # sender /\ ~(~IsSolana(c) /\ session.senderAddress = "pending")
       \/ t.to # TargetPoolAddress(c)
       \/ Abs(t.value - expected) > tolerance

FailureReasons ==
    {"Transaction not found on chain", "Transaction failed on chain",
     "Sender address mismatch", "Recipient address mismatch", "Amount mismatch",
     "Failed to verify transaction on chain"}

\* C8: when the deposit's verification fails for any reason (not found,
\* failed on chain, sender, recipient or amount mismatch, or the chain
\* lookup raising), the request is answered 400 with the reason in details
\* and writes nothing: a request goes on to the deposit update only if the
\* lookup did not raise and the deposit has none of the faults; the session
\* stays as it was, and a request on a session that is (still) pending is
\* let through by the guard.
C8_FailedVerificationLeavesPending ==
    [][\A r \in RequestIds:
         StartStep(r) =>
           LET q == requests'[r] IN
           /\ q.pc = "writeDeposit"
                => ~q.threw /\ ~DepositFault(q.session, q.depositSignature)
           /\ q.verdict = "invalid"
                => /\ q.pc = "done"
                   /\ q.http = 400
                   /\ q.error = "Deposit verification failed"
                   /\ q.details \in FailureReasons
                   /\ q.writes = 0
                   /\ PayoutsBy(r)' = {}
                   /\ sessions' = sessions
                   /\ payouts' = payouts
           /\ (/\ q.id \in SessionIds
               /\ sessions[q.id].status = "pending"
               /\ q.error # "Deposit signature required")
                => q.verdict # "none"
      ]_vars

\* C8's case: a request failed verification because the lookup raised, the
\* session stayed pending, and a later request on it passed the guard and
\* the verifier.
C8_Witness ==
    \E r1, r2 \in RequestIds:
      /\ r1 < r2
      /\ requests[r1].pc = "done"
      /\ requests[r1].error = "Deposit verification failed"
      /\ requests[r1].details = "Failed to verify transaction on chain"
      /\ requests[r2].id = requests[r1].id
      /\ requests[r2].verdict = "valid"

\* Request r's verification succeeded, its deposit update was stored, and
\* the dispatcher threw: it has been answered and no payout of it exists.
DispatcherThrew(r) ==
    /\ requests[r].pc = "done"
    /\ requests[r].verdict = "valid"
    /\ requests[r].writes >= 1
    /\ PayoutsBy(r) = {}

\* C9: when verification succeeds but the dispatcher throws, the session
\* ends with status payout_failed, depositSignature set and payoutSignature
\* unset, the answer is 500, and the session is not back in pending.
C9_PayoutFailureStored ==
    \A r \in RequestIds:
      DispatcherThrew(r) =>
        LET session == sessions[requests[r].id] IN
        /\ requests[r].http = 500
        /\ session.status = "payout_failed"
        /\ session.depositSignature # NULL
        /\ session.payoutSignature = NULL

\* C10: the stored status agrees with the chain: completed only if a payout
\* of the session was confirmed and its signature is the stored one,
\* payout_failed only if no payout of the session was confirmed; also when
\* a storage write fails after the payout was confirmed.
C10_StatusAgreesWithChain ==
    \A i \in SessionIds:
      /\ sessions[i].status = "completed"
           => \E p \in PayoutsOf(i): p.signature = sessions[i].payoutSignature
      /\ sessions[i].status = "payout_failed" => PayoutsOf(i) = {}

\* The value a decimal amount denotes, in the chain's value unit (lamports
\* on Solana, 10^12 wei on the EVM chains).
AmountInChainUnit(c, amount) ==
    IF IsSolana(c) THEN ParseFloatMicro(amount) * LamportsPerMicro
    ELSE ParseFloatMicro(amount)

\* The fixed network fee of the chain as the interface documents it: 5000
\* lamports, 0.001 ETH, 0.0005 BNB.
FixedNetworkFee(c) ==
    CASE IsSolana(c) -> 5000
      [] IsEthereum(c) -> 1000
      [] OTHER -> 500

\* C11: for every successful payout, the value transferred to the recipient
\* is the session's deposit amount minus the chain's fixed network fee
\* exactly (5000 lamports on Solana, 0.001 ETH, 0.0005 BNB), and so strictly
\* less than the deposit amount.
C11_PayoutIsDepositMinusFee ==
    \A p \in payouts:
      LET session == sessions[p.session]
          deposit == AmountInChainUnit(session.chain, session.amount)
          fee == FixedNetworkFee(session.chain)
      IN /\ p.value = deposit - fee
         /\ p.value < deposit
         /\ p.to = session.recipientAddress

\* The session's amount minus the fixed network fee is zero or negative.
TooSmall(session) ==
    AmountInChainUnit(session.chain, session.amount) - FixedNetworkFee(session.chain) <= 0

\* Some request on session i is between its arrival and its answer.
InFlight(i) ==
    \E r \in RequestIds: requests[r].id = i /\ requests[r].pc \notin {"idle", "done"}

\* Some request on session i got as far as the dispatcher and was answered.
DispatcherCalledOn(i) ==
    \E r \in RequestIds:
      /\ requests[r].id = i
      /\ requests[r].pc = "done"
      /\ requests[r].verdict = "valid"
      /\ requests[r].writes >= 1

\* C12: when a session's amount minus the fixed network fee is zero or
\* negative, the dispatcher fails closed before submission: no payout
\* transaction is ever submitted for the session, the session is never
\* completed, and once the requests that reached the dispatcher have been
\* answered the session is left in payout_failed.
C12_TooSmallFailsClosed ==
    \A i \in SessionIds:
      TooSmall(sessions[i]) =>
        /\ PayoutsOf(i) = {}
        /\ sessions[i].status # "completed"
        /\ sessions[i].payoutSignature = NULL
        /\ (DispatcherCalledOn(i) /\ ~InFlight(i))
             => sessions[i].status = "payout_failed"

\* Request r is the only request that has worked on its session: every
\* other request on that session was turned away without a write, or has
\* not arrived.
SoleRequest(r) ==
    \A q \in RequestIds \ {r}:
      requests[q].id = requests[r].id
        => requests[q].pc \in {"idle", "done"} /\ requests[q].writes = 0 /\ ~requests[q].raised

PositiveDecimals == {"0.01", "0.000003", "0.000065", "#0.01"}

\* A create request has been answered.
CreateAnswered == lastCreate.http # 0

\* C14: create rejects every amount that does not parse to a positive
\* decimal (zero such as the string "0", negative values, non-numeric
\* strings) with HTTP 400 and persists no session for it: where the chain's
\* pool is configured and the store has not raised, the answer to such a
\* request is 400 and names no session, and no stored session carries such
\* an amount.
C14_NonPositiveAmountRejected ==
    /\ (/\ CreateAnswered
        /\ lastCreate.body.amount \notin PositiveDecimals
        /\ TargetPoolAddress(BodyChain(lastCreate.body)) # NULL
        /\ lastCreate.http # 500)
         => lastCreate.http = 400 /\ lastCreate.sessionId = 0
    /\ \A i \in SessionIds: sessions[i].amount \in PositiveDecimals

\* The chain a create request asks for is one the relay supports.
SupportedChain(c) == IsSolana(c) \/ IsEthereum(c) \/ IsBnb(c)

\* One of the three required fields of the latest create request is missing.
FieldMissing ==
    \/ lastCreate.body.senderAddress \in {NULL, "", "#0"}
    \/ lastCreate.body.recipientAddress \in {NULL, "", "#0"}
    \/ lastCreate.body.amount \in {NULL, "", "#0"}

\* The latest create request asked for a supported chain whose pool wallet
\* is not configured.
PoolAbsent ==
    /\ CreateAnswered
    /\ SupportedChain(BodyChain(lastCreate.body))
    /\ TargetPoolAddress(BodyChain(lastCreate.body)) = NULL

\* C15 as stated: if the pool wallet for the requested chain is not
\* configured, create fails with HTTP 503 before any persistence.
C15_AbsentPoolAnswers503 ==
    PoolAbsent => lastCreate.http = 503 /\ lastCreate.sessionId = 0

\* C15, amended: if the pool wallet for the requested chain is not
\* configured, create stores nothing and answers 503 with a "not
\* configured" error, never 500 or 201, when the request carries its three
\* required fields; a request with a missing field is answered 400 before
\* the chain is looked at.  No session exists for a chain whose pool address
\* is absent.
C15_AbsentPoolRejected ==
    /\ PoolAbsent =>
         /\ lastCreate.sessionId = 0
         /\ IF FieldMissing
            THEN lastCreate.http = 400 /\ lastCreate.error = "Missing required fields"
            ELSE /\ lastCreate.http = 503
                 /\ lastCreate.error \in {"Solana pool wallet not configured",
                                          "ETH pool wallet not configured",
                                          "BNB pool wallet not configured"}
    /\ \A i \in SessionIds: TargetPoolAddress(sessions[i].chain) # NULL

\* C15's case: a request for a chain without pool key was answered 503
\* while the relay holds a session of a chain whose key is configured.
C15_Witness ==
    /\ PoolAbsent
    /\ lastCreate.http = 503
    /\ sessions # <<>>

\* The address has the format of the chain: base58 of a public key on
\* Solana, 0x-hex on the EVM chains.
WellFormed(c, address) ==
    IF IsSolana(c) THEN address \in SolAddresses ELSE address \in EthAddresses

\* The sender is well formed, or is the "pending" marker of a chain whose
\* verifier identifies the sender from the deposit (the EVM chains).
SenderAcceptable(c, address) ==
    WellFormed(c, address) \/ (~IsSolana(c) /\ address = "pending")

\* The latest create request has a missing field or, for a supported chain,
\* a malformed sender or recipient address.
BodyMalformed ==
    /\ CreateAnswered
    /\ \/ FieldMissing
       \/ /\ SupportedChain(BodyChain(lastCreate.body))
          /\ \/ ~SenderAcceptable(BodyChain(lastCreate.body), lastCreate.body.senderAddress)
             \/ ~WellFormed(BodyChain(lastCreate.body), lastCreate.body.recipientAddress)

\* Every stored session has addresses of its chain's format and, in the
\* absence of confirm-deposit requests, is as create stored it: pending,
\* without signatures.
StoredSessionsValid ==
    \A i \in SessionIds:
      /\ SupportedChain(sessions[i].chain)
      /\ WellFormed(sessions[i].chain, sessions[i].recipientAddress)
      /\ SenderAcceptable(sessions[i].chain, sessions[i].senderAddress)
      /\ sessions[i].status = "pending"
      /\ sessions[i].depositSignature = NULL
      /\ sessions[i].payoutSignature = NULL

C17_AmountAndRecipientFrozen ==
    [][\A i \in SessionIds:
         /\ i \in DOMAIN sessions'
         /\ sessions'[i].amount = sessions[i].amount
         /\ sessions'[i].recipientAddress = sessions[i].recipientAddress]_vars

\* C17's case: the latest created session went through the deposit update
\* and the payout_failed update of one request and the completed update of
\* another, and holds the amount and the recipient it was created with.
C17_Witness ==
    /\ lastCreate.http = 201
    /\ lastCreate.sessionId \in SessionIds
    /\ sessions[lastCreate.sessionId].status = "completed"
    /\ sessions[lastCreate.sessionId].amount = lastCreate.amount
    /\ sessions[lastCreate.sessionId].recipientAddress = lastCreate.body.recipientAddress
    /\ \E r \in RequestIds:
         /\ requests[r].id = lastCreate.sessionId
         /\ requests[r].error = "Payout failed"

\* Request r is inside the dispatcher with a payout that the dispatcher
\* signs with the pool key and submits: the wallet is there and the amount
\* covers the fee.
Submitting(r) ==
    /\ requests[r].pc = "payout"
    /\ TargetPoolAddress(ChainLower(requests[r].session.chain)) # NULL
    /\ ~AmountTooSmall(ChainLower(requests[r].session.chain), requests[r].session.amount)

\* The pool account whose key signs the payout of request r.
PoolKeyOf(r) == TargetPoolAddress(ChainLower(requests[r].session.chain))

\* C18: when several confirm-deposit requests for different sessions of the
\* same chain run concurrently, their payout submissions from the shared
\* pool key are serialized: no two payout submissions signed by the same
\* pool key are in flight at the same time.
C18_PayoutsSerializedPerKey ==
    \A r1, r2 \in RequestIds:
      (/\ r1 # r2
       /\ requests[r1].id # requests[r2].id
       /\ Submitting(r1)
       /\ Submitting(r2))
        => PoolKeyOf(r1) # PoolKeyOf(r2)

\* C19: depositSignature and payoutSignature are write-once: once either is
\* set on a session, no later step, a concurrent confirm-deposit on the
\* same session included, overwrites it with a different value or clears
\* it.
C19_SignaturesWriteOnce ==
    [][\A i \in SessionIds:
         /\ sessions[i].depositSignature # NULL
              => sessions'[i].depositSignature = sessions[i].depositSignature
         /\ sessions[i].payoutSignature # NULL
              => sessions'[i].payoutSignature = sessions[i].payoutSignature]_vars

\* C20: depositConfirmedAt and payoutSentAt are each written at most once
\* per session, exactly at the transition to deposit_confirmed and to
\* completed respectively, and payoutSentAt is never set on a session that
\* is in payout_failed.
C20_TimestampsWrittenOnce ==
    [][\A i \in SessionIds:
         /\ sessions[i].depositConfirmedAt # NULL
              => sessions'[i].depositConfirmedAt = sessions[i].depositConfirmedAt
         /\ sessions[i].payoutSentAt # NULL
              => sessions'[i].payoutSentAt = sessions[i].payoutSentAt
         /\ sessions'[i].depositConfirmedAt # sessions[i].depositConfirmedAt
              => /\ sessions[i].status = "pending"
                 /\ sessions'[i].status = "deposit_confirmed"
         /\ sessions'[i].payoutSentAt # sessions[i].payoutSentAt
              => /\ sessions[i].status = "deposit_confirmed"
                 /\ sessions'[i].status = "completed"
         /\ sessions'[i].status = "payout_failed" => sessions'[i].payoutSentAt = NULL]_vars

\* Request r's verification succeeded and its update to deposit_confirmed
\* was stored, and it has returned.
ReturnedAfterDepositConfirmed(r) ==
    /\ requests[r].pc = "done"
    /\ requests[r].verdict = "valid"
    /\ requests[r].writes >= 1

\* C21: after a confirm-deposit request whose verification succeeded and
\* which stored deposit_confirmed has returned, and no other request is at
\* work on the session, the session is in completed or payout_failed:
\* deposit_confirmed is only a transient status inside the request, also
\* when the payout_failed write itself fails.
C21_DepositConfirmedIsTransient ==
    \A r \in RequestIds:
      (ReturnedAfterDepositConfirmed(r) /\ ~InFlight(requests[r].id))
        => sessions[requests[r].id].status \in {"completed", "payout_failed"}

\* ---------------------------------------------- the verifier's decision
\* The transaction the latest verifier call looked up, in the terms of the
\* interface: whether it exists, whether it failed on chain, its origin,
\* its destination and the value it transferred (net of the fee the sender
\* paid on Solana).
VerifiedOnSolana == lastVerify.chain = "solana"
VerifiedTx ==
    IF VerifiedOnSolana THEN SolanaTx(lastVerify.signature)
    ELSE EvmTx(lastVerify.chain, lastVerify.signature)
TxFailedOnChain ==
    IF VerifiedOnSolana THEN VerifiedTx.err
    ELSE ~VerifiedTx.receipt \/ VerifiedTx.status = 0
TxOrigin == IF VerifiedOnSolana THEN VerifiedTx.key0 ELSE VerifiedTx.from
TxDestination == IF VerifiedOnSolana THEN VerifiedTx.key1 ELSE VerifiedTx.to
TxTransferred ==
    IF VerifiedOnSolana THEN VerifiedTx.pre0 - VerifiedTx.post0 - VerifiedTx.fee
    ELSE VerifiedTx.value

\* Two spellings of one address: base58 is case-sensitive, the hex of the
\* EVM chains is not.
SameAddress(a, b) == IF VerifiedOnSolana THEN a = b ELSE ToLower(a) = ToLower(b)

\* A verifier was called, its lookups answered, and the transaction exists
\* and did not fail on chain.
VerifierSawTx ==
    /\ lastVerify.chain # NULL
    /\ ~lastVerify.threw
    /\ VerifiedTx.found
    /\ ~TxFailedOnChain

ToleranceUsed == IF VerifiedOnSolana THEN SolToleranceLamports ELSE EthTolerance

\* The transferred value differs from the amount the session expects by no
\* more than tol; an amount that is no number is within no tolerance.
AmountWithin(tol) ==
    /\ ~IsNaN(lastVerify.amount)
    /\ Abs(TxTransferred - AmountInChainUnit(lastVerify.chain, lastVerify.amount)) <= tol

\* The sentinel applies: the expected sender is "pending" and the chain's
\* verifier knows the sentinel.
SentinelApplies == lastVerify.fromAddress = "pending" /\ ~VerifiedOnSolana

\* C23: a verifier whose lookups answered returns valid if and only if the
\* transaction exists, did not fail on chain, its origin is the expected
\* sender (or the sentinel applies), its destination is the
\* pool address and the transferred value is within the tolerance of the
\* expected amount; a destination other than the pool address is never
\* accepted.
C23_ValidIffAllChecksPass ==
    (lastVerify.chain # NULL /\ ~lastVerify.threw) =>
      /\ lastVerify.valid <=>
           /\ VerifiedTx.found
           /\ ~TxFailedOnChain
           /\ SentinelApplies \/ SameAddress(TxOrigin, lastVerify.fromAddress)
           /\ SameAddress(TxDestination, lastVerify.toAddress)
           /\ AmountWithin(ToleranceUsed)
      /\ (VerifiedTx.found /\ ~SameAddress(TxDestination, lastVerify.toAddress))
           => ~lastVerify.valid

\* The tolerance the interface documents: 1000 lamports on Solana, and on
\* ETH and BNB at most 10^-5 of one unit, the upper end of "the order of
\* 10^-6" (in units of 10^12 wei).
DocumentedTolerance == IF VerifiedOnSolana THEN SolToleranceLamports ELSE 10

\* The verifier got as far as its amount check: the transaction exists,
\* did not fail, comes from the expected sender and goes to the pool.
ReachedAmountCheck ==
    /\ VerifierSawTx
    /\ SameAddress(TxOrigin, lastVerify.fromAddress)
    /\ SameAddress(TxDestination, lastVerify.toAddress)
    /\ ~IsNaN(lastVerify.amount)

\* C24: the verifier fails with "Amount mismatch" exactly when the
\* transferred value differs from the expected amount by more than the
\* chain's tolerance, which is of the order of 10^-6 of one native unit on
\* every chain.
C24_MismatchExactlyBeyondTolerance ==
    ReachedAmountCheck =>
      (lastVerify.error = "Amount mismatch" <=> ~AmountWithin(DocumentedTolerance))

\* The answer a confirm-deposit request would get if it arrived now.
ArrivalAnswer(id, depositSignature, threw) ==
    ConfirmArrival(IdleRequest, id, depositSignature, threw)

\* The requests that are let arrive: without a depositSignature, with the
\* valid deposit, with a deposit from another sender, and with a chain
\* lookup that raises.
ArrivalProbes == ({NULL, "tx1", "tx5"} \X {FALSE}) \cup {<<"tx1", TRUE>>}

\* The request was answered without having written to a session.
AnsweredUnwritten(q, http) ==
    q.pc = "done" /\ q.http = http /\ q.writes = 0 /\ ~q.raised

\* C25: confirm-deposit maps outcomes to responses.  In every reachable
\* state of the store, a request arriving without depositSignature is
\* answered 400, one for an unknown session id 404, one for a session that
\* is not pending 400, all three without a session update; one whose
\* verification fails is answered 400 with the reason in details.  A
\* request whose dispatcher failed after the deposit update is answered
\* 500, and one whose verification, payout and both updates succeeded 200.
C25_OutcomesMapToResponses ==
    /\ \A id \in SessionIds \cup {0}, probe \in ArrivalProbes:
         LET depositSignature == probe[1]
             threw == probe[2]
         IN
         \A q \in {ArrivalAnswer(id, depositSignature, threw)}:
         IF depositSignature = NULL
         THEN AnsweredUnwritten(q, 400)
         ELSE IF id \notin SessionIds
         THEN AnsweredUnwritten(q, 404)
         ELSE IF sessions[id].status # "pending"
         THEN AnsweredUnwritten(q, 400)
         ELSE IF threw \/ DepositFault(sessions[id], depositSignature)
         THEN AnsweredUnwritten(q, 400) /\ q.details \in FailureReasons
         ELSE q.pc = "writeDeposit"
    /\ \A r \in RequestIds:
         /\ DispatcherThrew(r) => requests[r].http = 500
         /\ (/\ requests[r].pc = "done"
             /\ requests[r].verdict = "valid"
             /\ PayoutsBy(r) # {}
             /\ ~requests[r].raised)
              => requests[r].http = 200 /\ requests[r].writes = 2
         /\ requests[r].pc = "done" => requests[r].http \in {200, 400, 404, 500}
         /\ requests[r].http = 200 => requests[r].writes = 2 /\ PayoutsBy(r) # {}

\* C25's case: the session is completed, its request was answered 200, and
\* a request arriving now for it would be answered 400, one for an unknown
\* id 404.
C25_Witness ==
    \E r \in RequestIds:
      /\ requests[r].http = 200
      /\ sessions[requests[r].id].status = "completed"
      /\ ArrivalAnswer(requests[r].id, "tx1", FALSE).http = 400
      /\ ArrivalAnswer(0, "tx1", FALSE).http = 404

\* ------------------------------------------------------------- the reads
\* A step of a GET handler: it answers a read, or it is a step of neither
\* the create handler nor a confirm-deposit request.
ReadStep ==
    \/ lastRead' # lastRead
    \/ requests' = requests /\ lastCreate' = lastCreate

\* The latest GET asked for session i and was answered with its projection.
GotSession(read, i) == read.kind = "get" /\ read.id = i /\ read.http = 200

\* C26: get(sessionId) and listByAddress(address) are read-only: a step of
\* either, at any point between the steps of other requests, leaves every
\* session record (and every request and payout) unchanged, and a get of a
\* session that follows a get of the same session whose row has not been
\* written since returns the same projection.
C26_ReadsAreReadOnly ==
    [][ReadStep =>
         /\ sessions' = sessions
         /\ requests' = requests
         /\ payouts' = payouts
         /\ \A i \in SessionIds:
              (/\ GotSession(lastRead, i)
               /\ GotSession(lastRead', i)
               /\ lastRead.rows = <<sessions[i]>>)
                => lastRead'.body = lastRead.body]_vars

\* C26's case: a get was answered with the projection of a session in
\* deposit_confirmed while the request that confirmed it is still at work,
\* and the row is as the get saw it.
C26_Witness ==
    \E i \in SessionIds:
      /\ GotSession(lastRead, i)
      /\ lastRead.body[1].status = "deposit_confirmed"
      /\ lastRead.rows = <<sessions[i]>>
      /\ InFlight(i)

\* The ids of the sessions in a list of projections.
IdsIn(body) == {body[k].sessionId: k \in 1..Len(body)}

\* C28: listByAddress(address) returns exactly the sessions whose current
\* senderAddress equals the address, whatever their status: in every
\* reachable state and for every address, the answer holds the projection
\* of every stored session with that sender, each once, and of no other.
C28_ListIsExactlySendersSessions ==
    \A address \in QueryAddresses \ {NULL, ""}:
      LET body == ListSessionsAnswer(address, FALSE).body IN
      /\ ListSessionsAnswer(address, FALSE).http = 200
      /\ IdsIn(body) = {i \in SessionIds: sessions[i].senderAddress = address}
      /\ Cardinality(IdsIn(body)) = Len(body)
      /\ \A k \in 1..Len(body): body[k] = SessionProjection(sessions[body[k].sessionId])

\* C28's case: a list was answered with a session that is no longer
\* pending and without a stored session of another sender.
C28_Witness ==
    /\ lastRead.kind = "list"
    /\ lastRead.http = 200
    /\ lastRead = ListSessionsAnswer(lastRead.address, FALSE)
    /\ \E k \in 1..Len(lastRead.body): lastRead.body[k].status = "completed"
    /\ \E i \in SessionIds: sessions[i].senderAddress # lastRead.address
    /\ Len(lastRead.body) < Len(sessions)

\* get(i) returns session i: the answer is 200 with the projection of the
\* row whose id is i, also when the row has been updated since.
GetReturns(i) ==
    LET answer == GetSessionAnswer(i, FALSE) IN
    /\ answer.http = 200
    /\ answer.body = <<SessionProjection(sessions[i])>>
    /\ answer.body[1].sessionId = i

\* No step takes a session out of the store or gives it another id.
SessionsKept == \A i \in SessionIds: i \in SessionIds' /\ sessions'[i].id = i

\* C29: there is no deletion path: the set of persisted session ids only
\* grows, and in every state get(id) returns each session created so far
\* (unless the select itself raises).
C29_NoDeletionPath ==
    /\ [](\A i \in SessionIds: GetReturns(i))
    /\ [][SessionsKept]_vars

\* C29's case: after a later session was created and the first one went to
\* payout_failed, a get of the first one returned it.
C29_Witness ==
    /\ Len(sessions) = MaxCreated
    /\ GotSession(lastRead, 1)
    /\ lastRead.body[1].status = "payout_failed"
    /\ lastRead.rows = <<sessions[1]>>

\* The step is the stored deposit update of a request on session i whose
\* verifier returned the sender that the session holds afterwards.
BackfillStep(i) ==
    \E r \in RequestIds:
      /\ requests[r].id = i
      /\ requests[r].pc = "writeDeposit"
      /\ requests'[r].pc = "payout"
      /\ requests[r].verification.valid
      /\ requests[r].verification.actualSender # NULL
      /\ sessions'[i].senderAddress = requests[r].verification.actualSender
      /\ sessions'[i].status = "deposit_confirmed"

\* C27: senderAddress is changed after creation only by the backfill of a
\* deposit update that follows a successful verification, and only when
\* the stored senderAddress is "pending" and the verifier returned an
\* actual sender; every other step of every request keeps it.
C27_SenderChangedOnlyByBackfill ==
    [][\A i \in SessionIds:
         sessions'[i].senderAddress # sessions[i].senderAddress
           => sessions[i].senderAddress = "pending" /\ BackfillStep(i)]_vars

\* C27's case: the verifier of an ETH or BNB deposit returned an actual
\* sender for a session whose sender is not the sentinel, the deposit
\* update was stored, and the session keeps the sender of its creation.
C27_Witness ==
    \E r \in RequestIds:
      /\ requests[r].pc = "payout"
      /\ requests[r].verification.actualSender = "0xALICE"
      /\ sessions[requests[r].id].status = "deposit_confirmed"
      /\ sessions[requests[r].id].senderAddress = "0xalice"
      /\ lastCreate.body.senderAddress = "0xalice"

\* The sessions that hold deposit transaction t as their verified deposit.
FundedBy(t) == {i \in SessionIds: sessions[i].depositSignature = t}

\* C30: a single on-chain deposit transaction funds at most one payout:
\* the same deposit transaction id is never accepted for two different
\* sessions, and payouts are never made for two sessions on the strength
\* of one deposit.
C30_DepositFundsOneSession ==
    \A t \in TxIds:
      /\ Cardinality(FundedBy(t)) <= 1
      /\ Cardinality({p.session: p \in {q \in payouts: q.session \in FundedBy(t)}}) <= 1

\* ------------------------------------------- tolerance and network fee
\* The verifier accepted a deposit for an amount the dispatcher can read.
DepositAccepted == lastVerify.valid /\ ~IsNaN(lastVerify.amount)

\* C31: the payout of a session is strictly less than the value its
\* verified deposit transferred: whenever a verifier accepts a deposit for
\* an amount, what the chain's dispatcher pays out for that amount is less
\* than what the deposit moved, because on each chain the verifier's
\* tolerance is smaller than the fixed network fee.
C31_PayoutBelowDeposit ==
    /\ lastVerify.chain # NULL => ToleranceUsed < NetworkFee(lastVerify.chain)
    /\ DepositAccepted =>
         PayoutValue(lastVerify.chain, lastVerify.amount) < TxTransferred

\* C31's case: a deposit that moved less than the session's amount, by the
\* whole tolerance, was accepted.
C31_Witness ==
    /\ DepositAccepted
    /\ AmountInChainUnit(lastVerify.chain, lastVerify.amount) - TxTransferred
         >= ToleranceUsed
    /\ ~AmountTooSmall(lastVerify.chain, lastVerify.amount)

\* ------------------------------------------------ the order of the checks
\* The sender check fails: the origin is not the expected sender and the
\* sentinel does not apply.
SenderDiffers == ~SameAddress(TxOrigin, lastVerify.fromAddress) /\ ~SentinelApplies

\* The recipient check fails: the destination is not the pool address.
RecipientDiffers == ~SameAddress(TxDestination, lastVerify.toAddress)

\* C32: a verifier whose lookups answered evaluates its checks in a fixed
\* order and reports the first one that fails: not found, then failed on
\* chain, then sender mismatch, then recipient mismatch, then amount
\* mismatch; a transaction that fails several checks is reported with the
\* earliest of them.
C32_FirstFailingCheckReported ==
    (lastVerify.chain # NULL /\ ~lastVerify.threw /\ ~IsNaN(lastVerify.amount)) =>
      IF ~VerifiedTx.found
      THEN lastVerify.error = "Transaction not found on chain"
      ELSE IF TxFailedOnChain
      THEN lastVerify.error = "Transaction failed on chain"
      ELSE IF SenderDiffers
      THEN lastVerify.error = "Sender address mismatch"
      ELSE IF RecipientDiffers
      THEN lastVerify.error = "Recipient address mismatch"
      ELSE /\ lastVerify.error \in {"Amount mismatch", NULL}
           /\ lastVerify.error = "Amount mismatch" =>
                TxTransferred # AmountInChainUnit(lastVerify.chain, lastVerify.amount)
           /\ lastVerify.error = NULL <=> lastVerify.valid

\* C32's case: a transaction that goes from another sender to another
\* recipient was reported with the sender mismatch.
C32_Witness ==
    /\ VerifierSawTx
    /\ SenderDiffers
    /\ RecipientDiffers
    /\ lastVerify.error = "Sender address mismatch"

\* ------------------------------------------------- one dispatcher call
\* Request r has been inside the dispatcher and is out of it again.
PastDispatcher(r) == requests[r].pc \in {"writeCompleted", "writeFailed", "done"}

\* The step is the return of the dispatcher to request r.
DispatcherReturn(r) == requests[r].pc = "payout" /\ requests'[r].pc # "payout"

\* The step answers request r after its dispatcher threw.
AnsweredAfterThrow(r) ==
    /\ requests[r].pc = "writeFailed"
    /\ requests'[r].pc = "done"
    /\ PayoutsBy(r) = {}

\* The dispatcher is called at most once per request, and a call submits
\* at most one transaction.
OneDispatcherCall ==
    /\ \A r \in RequestIds: PastDispatcher(r) => requests'[r].pc # "payout"
    /\ payouts' # payouts =>
         /\ Cardinality(payouts') = Cardinality(payouts) + 1
         /\ \E r \in RequestIds: DispatcherReturn(r) /\ payouts' \ payouts \subseteq PayoutsBy(r)'

\* C33: each confirm-deposit request calls the dispatcher at most once and
\* the dispatcher submits at most one transaction per call; a failure of
\* the submission or confirmation is not retried: it propagates, and when
\* the request is answered the session is payout_failed.
C33_NoRetryThenPayoutFailed ==
    [][/\ OneDispatcherCall
       /\ \A r \in RequestIds:
            AnsweredAfterThrow(r) => sessions'[requests[r].id].status = "payout_failed"]_vars

\* ------------------------------------------------- finalizing a battle
\* A tick is inside finalizeBattle.
Finalizing(t) ==
    ticks[t].pc \in {"finalizeRead", "finalizeStatus", "finalizeFirst", "finalizeSecond"}

\* The agents rows show one finalization at most: one match, one win at
\* most, and a rating 20 points from where it was at most.
AtMostOneFinalization ==
    \A a \in Agents:
        /\ agentStats[a].totalMatches <= 1
        /\ agentStats[a].wins <= 1
        /\ agentStats[a].eloRating \in {0 - EloChange, 0, EloChange}

\* The agents rows show one whole finalization: a match each, and either
\* no change of rating or 20 points from one agent to the other with the
\* win.
ExactlyOneFinalization ==
    /\ \A a \in Agents: agentStats[a].totalMatches = 1
    /\ \/ \A a \in Agents: agentStats[a].eloRating = 0 /\ agentStats[a].wins = 0
       \/ \E a \in Agents:
            /\ agentStats[a].eloRating = EloChange
            /\ agentStats[a].wins = 1
            /\ agentStats[Opponent(a)].eloRating = 0 - EloChange
            /\ agentStats[Opponent(a)].wins = 0

\* C34: the battle is finalized at most once, also when ticks overlap: the
\* Elo change of 20, the win and the increment of totalMatches reach the two
\* agents at most once, and exactly once when the battle is completed and
\* no tick is finalizing it.
C34_FinalizedExactlyOnce ==
    /\ AtMostOneFinalization
    /\ (battle.status = "completed" /\ \A t \in TickIds: ~Finalizing(t))
         => ExactlyOneFinalization

\* ------------------------------------------------ the status of a battle
\* The moves of the status the lifecycle has.
StatusMoves ==
    {<<"none", "pending">>, <<"pending", "running">>, <<"running", "completed">>}

\* The step answers start request q with the given status code.
StartAnswered(q, http) == starts[q].pc # "done" /\ starts'[q].pc = "done" /\ starts'[q].http = http

\* The step inserts the trade of request q and answers 201.
TradeAccepted(q) == trades[q].pc # "done" /\ trades'[q].http = 201

\* C35: the status of a battle only moves pending -> running -> completed:
\* a start is answered 200 only when the battle it writes is pending, a
\* start that is answered 400 changes nothing, a trade is accepted only
\* when the battle is running at that moment, and a completed battle is
\* never running again, whatever requests and ticks race.
C35_StatusOnlyMovesForward ==
    [][/\ battle'.status # battle.status
            => <<battle.status, battle'.status>> \in StatusMoves
       /\ \A q \in StartIds:
            /\ StartAnswered(q, 200) => battle.status = "pending"
            /\ StartAnswered(q, 400) => battle' = battle
       /\ \A q \in TradeIds: TradeAccepted(q) => battle.status = "running"]_vars

\* ------------------------------------------------------ getCryptoPrice
\* The step returns from call k of getCryptoPrice.
PriceReturned(k) == priceCalls[k].pc # "done" /\ priceCalls'[k].pc = "done"

\* The fetch answered ok with a price of the coin (a body whose price is
\* 0 holds no price).
SuccessfulFetch(response) ==
    ~response.threw /\ response.status = 200 /\ response.hasPrice /\ response.price > 0

\* What a call returns when its fetch failed: the price of the entry it
\* found when it was called, else 42000 for bitcoin, else 1000.
StaleOrFallback(cached, coinId) ==
    IF cached.present THEN cached.price
    ELSE IF coinId = "bitcoin" THEN 42000 ELSE 1000

\* C36: getCryptoPrice never throws and always returns a price. A call
\* that finds an entry younger than 60 s returns its price without a fetch
\* and every other call fetches; a successful fetch replaces the coin's
\* entry with the new price and the time of the replacement and returns
\* the new price; a failed fetch returns the price of the entry the call
\* found, if any, else the fallback of the coin, else 1000, and leaves the
\* cache as it is.
C36_PriceAlwaysReturned ==
    [][\A k \in PriceCallIds:
         /\ priceCalls[k].pc = "idle" /\ priceCalls'[k].pc # "idle" =>
              LET coinId == priceCalls'[k].coinId
                  entry == priceCache[coinId]
              IN /\ priceCache' = priceCache
                 /\ IF entry.present /\ dateNow - entry.timestamp < 60000
                    THEN /\ PriceReturned(k)
                         /\ ~priceCalls'[k].fetched
                         /\ priceCalls'[k].price = entry.price
                    ELSE priceCalls'[k].pc = "fetch"
         /\ PriceReturned(k) => ~priceCalls'[k].threw /\ priceCalls'[k].price > 0
         /\ priceCalls[k].pc = "fetch" /\ PriceReturned(k) =>
              LET coinId == priceCalls[k].coinId
                  response == priceCalls'[k].response
              IN /\ priceCalls'[k].fetched
                 /\ IF SuccessfulFetch(response)
                    THEN /\ priceCalls'[k].price = response.price
                         /\ priceCache' = [priceCache EXCEPT ![coinId] =
                                             [present |-> TRUE,
                                              price |-> response.price,
                                              timestamp |-> dateNow]]
                    ELSE /\ priceCalls'[k].price =
                              StaleOrFallback(priceCalls[k].cached, coinId)
                         /\ priceCache' = priceCache]_vars

\* A call whose fetch failed has returned the price of the stale entry it
\* had found, and this price is not the fallback.
C36_Witness ==
    \E k \in PriceCallIds:
        /\ priceCalls[k].pc = "done"
        /\ priceCalls[k].fetched
        /\ ~SuccessfulFetch(priceCalls[k].response)
        /\ priceCalls[k].cached.present
        /\ priceCalls[k].price = priceCalls[k].cached.price
        /\ priceCalls[k].price # FallbackPrice(priceCalls[k].coinId)

====
